---- MODULE Spec2Model ----
(***************************************************************************)
(* World Bank Documents & Reports MCP server (worldbank_dnr_mcp).           *)
(*                                                                         *)
(* The four tool handlers of factory.py, the helpers of core.py and the    *)
(* response parsers of parsers.py.  Text is modelled by strings, JSON      *)
(* values (the objects response.json() returns and json.dumps consumes)   *)
(* by tagged records, and a Python exception by a result with ok = FALSE.  *)
(***************************************************************************)
EXTENDS Integers, Sequences, FiniteSets, TLC

VARIABLES response_parser, calls

vars == <<response_parser, calls>>

(***************************************************************************)
(* JSON / Python values.  A dict keeps its insertion order: it is a        *)
(* sequence of <<key, value>> pairs with distinct keys.                    *)
(***************************************************************************)
None == [kind |-> "null", val |-> 0]
JStr(s) == [kind |-> "str", val |-> s]
JInt(n) == [kind |-> "int", val |-> n]
JBool(b) == [kind |-> "bool", val |-> b]
JList(xs) == [kind |-> "list", val |-> xs]
JDict(kvs) == [kind |-> "dict", val |-> kvs]

\* key in d
HasKey(d, k) == \E i \in DOMAIN d.val : d.val[i][1] = k

\* d[k]
Item(d, k) == d.val[CHOOSE i \in DOMAIN d.val : d.val[i][1] = k][2]

\* d.get(k, dflt)
Get(d, k, dflt) == IF HasKey(d, k) THEN Item(d, k) ELSE dflt

\* bool(v)
Truthy(v) ==
  CASE v.kind = "null" -> FALSE
    [] v.kind = "bool" -> v.val
    [] v.kind = "int" -> v.val # 0
    [] v.kind = "str" -> v.val # ""
    [] OTHER -> Len(v.val) > 0

\* type(v).__name__, as it appears in the messages of AttributeError/TypeError
TypeName(v) ==
  CASE v.kind = "null" -> "NoneType"
    [] v.kind = "bool" -> "bool"
    [] v.kind = "int" -> "int"
    [] v.kind = "str" -> "str"
    [] v.kind = "list" -> "list"
    [] OTHER -> "dict"

AttrError(v, attr) == "'" \o TypeName(v) \o "' object has no attribute '" \o attr \o "'"

(***************************************************************************)
(* Strings.                                                                *)
(***************************************************************************)
RECURSIVE JoinStrings(_, _)
JoinStrings(sep, xs) ==
  IF Len(xs) = 0 THEN ""
  ELSE IF Len(xs) = 1 THEN xs[1]
  ELSE JoinStrings(sep, SubSeq(xs, 1, Len(xs) \div 2)) \o sep
       \o JoinStrings(sep, SubSeq(xs, Len(xs) \div 2 + 1, Len(xs)))

\* str(n) for an integer
IntStr(n) == ToString(n)

\* format(n, ",") for a non-negative integer
RECURSIVE CommaStr(_)
CommaStr(n) ==
  IF n < 1000 THEN ToString(n)
  ELSE LET r == n % 1000
           pad == IF r < 10 THEN "00" ELSE IF r < 100 THEN "0" ELSE ""
       IN CommaStr(n \div 1000) \o "," \o pad \o ToString(r)

WhiteSpace == {" ", "\t", "\n"}

\* str.strip(), applied by pydantic's str_strip_whitespace
RECURSIVE Strip(_)
Strip(s) ==
  IF Len(s) = 0 THEN s
  ELSE IF SubSeq(s, 1, 1) \in WhiteSpace THEN Strip(SubSeq(s, 2, Len(s)))
  ELSE IF SubSeq(s, Len(s), Len(s)) \in WhiteSpace THEN Strip(SubSeq(s, 1, Len(s) - 1))
  ELSE s

(***************************************************************************)
(* Results of fallible Python code: a value, or a raised Exception with    *)
(* the text str(e).                                                        *)
(***************************************************************************)
Ok(v) == [error |-> "", ok |-> TRUE, val |-> v]
Raise(msg) == [error |-> msg, ok |-> FALSE, val |-> None]

\* repr(v)
RECURSIVE PyRepr(_)
PyRepr(v) ==
  CASE v.kind = "null" -> "None"
    [] v.kind = "bool" -> IF v.val THEN "True" ELSE "False"
    [] v.kind = "int" -> IntStr(v.val)
    [] v.kind = "str" -> "'" \o v.val \o "'"
    [] v.kind = "list" ->
         "[" \o JoinStrings(", ", [i \in DOMAIN v.val |-> PyRepr(v.val[i])]) \o "]"
    [] OTHER ->
         "{" \o JoinStrings(", ", [i \in DOMAIN v.val |->
                  "'" \o v.val[i][1] \o "': " \o PyRepr(v.val[i][2])]) \o "}"

\* str(v), the text an f-string substitutes for {v}
PyStr(v) == IF v.kind = "str" THEN v.val ELSE PyRepr(v)

\* len(v)
PyLen(v) ==
  CASE v.kind = "str" -> Ok(Len(v.val))
    [] v.kind \in {"list", "dict"} -> Ok(Len(v.val))
    [] OTHER -> Raise("object of type '" \o TypeName(v) \o "' has no len()")

\* the items "for x in v" visits
PyIter(v) ==
  CASE v.kind = "list" -> Ok(v.val)
    [] v.kind = "str" -> Ok([i \in 1..Len(v.val) |-> JStr(SubSeq(v.val, i, i))])
    [] v.kind = "dict" -> Ok([i \in DOMAIN v.val |-> JStr(v.val[i][1])])
    [] OTHER -> Raise("'" \o TypeName(v) \o "' object is not iterable")

\* sep.join(v)
PyJoin(sep, v) ==
  LET Join(items) ==
        LET bad == {i \in DOMAIN items : items[i].kind # "str"}
        IN IF bad # {}
           THEN LET i == CHOOSE j \in bad : \A k \in bad : j <= k
                IN Raise("sequence item " \o IntStr(i - 1) \o ": expected str instance, "
                         \o TypeName(items[i]) \o " found")
           ELSE Ok(JoinStrings(sep, [i \in DOMAIN items |-> items[i].val]))
  IN IF v.kind \notin {"list", "str", "dict"} THEN Raise("can only join an iterable")
     ELSE Join(PyIter(v).val)

\* format(v, ",")
PyCommaFormat(v) ==
  CASE v.kind = "int" -> Ok(CommaStr(v.val))
    [] v.kind = "str" -> Raise("Cannot specify ',' with 's'.")
    [] OTHER -> Raise("unsupported format string passed to " \o TypeName(v) \o ".__format__")

(***************************************************************************)
(* json.dumps(v, indent=2)                                                 *)
(***************************************************************************)
EscapeChar(c) ==
  CASE c = "\"" -> "\\\""
    [] c = "\\" -> "\\\\"
    [] c = "\n" -> "\\n"
    [] c = "\t" -> "\\t"
    [] OTHER -> c

RECURSIVE JsonEscape(_)
JsonEscape(s) ==
  IF Len(s) = 0 THEN ""
  ELSE IF Len(s) = 1 THEN EscapeChar(s)
  ELSE LET h == Len(s) \div 2
       IN JsonEscape(SubSeq(s, 1, h)) \o JsonEscape(SubSeq(s, h + 1, Len(s)))

RECURSIVE JsonDumps(_, _)
JsonDumps(v, ind) ==
  LET ind2 == ind \o "  " IN
  CASE v.kind = "null" -> "null"
    [] v.kind = "bool" -> IF v.val THEN "true" ELSE "false"
    [] v.kind = "int" -> IntStr(v.val)
    [] v.kind = "str" -> "\"" \o JsonEscape(v.val) \o "\""
    [] v.kind = "list" ->
         IF Len(v.val) = 0 THEN "[]"
         ELSE "[\n" \o JoinStrings(",\n", [i \in DOMAIN v.val |->
                          ind2 \o JsonDumps(v.val[i], ind2)])
              \o "\n" \o ind \o "]"
    [] OTHER ->
         IF Len(v.val) = 0 THEN "{}"
         ELSE "{\n" \o JoinStrings(",\n", [i \in DOMAIN v.val |->
                          ind2 \o "\"" \o JsonEscape(v.val[i][1]) \o "\": "
                          \o JsonDumps(v.val[i][2], ind2)])
              \o "\n" \o ind \o "}"

json_dumps(v) == JsonDumps(v, "")

(***************************************************************************)
(* parsers.py                                                              *)
(* A parser returns the pair <<docs_list, total>>.                          *)
(***************************************************************************)
\* mutant: the filter of line 27 without "key != 'facets'"
RECURSIVE StdioDocsWithFacets(_)
StdioDocsWithFacets(kvs) ==
  IF Len(kvs) = 0 THEN <<>>
  ELSE IF kvs[1][2].kind = "dict" THEN <<kvs[1][2]>> \o StdioDocsWithFacets(Tail(kvs))
  ELSE StdioDocsWithFacets(Tail(kvs))

\* the values of the entries of a dict that pass the filter of line 27
RECURSIVE StdioDocs(_)
StdioDocs(kvs) ==
  IF Len(kvs) = 0 THEN <<>>
  ELSE LET key == kvs[1][1]
           doc == kvs[1][2]
       IN IF key # "facets" /\ doc.kind = "dict"
          THEN <<doc>> \o StdioDocs(Tail(kvs))
          ELSE StdioDocs(Tail(kvs))

\* mutant: "response.get('documents')" without the default
parse_stdio_response_nodefault(response) ==
  LET Items(documents) ==
        IF documents.kind # "dict" THEN Raise(AttrError(documents, "items"))
        ELSE Ok(<<JList(StdioDocs(documents.val)), Get(response, "total", JInt(0))>>)
  IN IF response.kind # "dict" THEN Raise(AttrError(response, "get"))
     ELSE Items(Get(response, "documents", None))

\* mutant: without a top-level total, the number of records found is the total
parse_stdio_response_counted(response) ==
  LET Items(documents) ==
        IF documents.kind # "dict" THEN Raise(AttrError(documents, "items"))
        ELSE Ok(<<JList(StdioDocs(documents.val)),
                  Get(response, "total", JInt(Len(StdioDocs(documents.val))))>>)
  IN IF response.kind # "dict" THEN Raise(AttrError(response, "get"))
     ELSE Items(Get(response, "documents", JDict(<<>>)))

\* lines 11-30
parse_stdio_response(response) ==
  LET Items(documents) ==
        IF documents.kind # "dict" THEN Raise(AttrError(documents, "items"))
        ELSE Ok(<<JList(StdioDocs(documents.val)), Get(response, "total", JInt(0))>>)
  IN IF response.kind # "dict" THEN Raise(AttrError(response, "get"))
     ELSE Items(Get(response, "documents", JDict(<<>>)))

\* mutant: total = len(docs_list)
parse_sse_response_counted(response) ==
  LET Docs(documents) ==
        IF documents.kind # "dict" THEN Raise(AttrError(documents, "get"))
        ELSE Ok(<<Get(documents, "docs", JList(<<>>)),
                  JInt(Len(Get(documents, "docs", JList(<<>>)).val))>>)
  IN IF response.kind # "dict" THEN Raise(AttrError(response, "get"))
     ELSE Docs(Get(response, "documents", JDict(<<>>)))

parse_sse_response(response) ==
  LET Docs(documents) ==
        IF documents.kind # "dict" THEN Raise(AttrError(documents, "get"))
        ELSE Ok(<<Get(documents, "docs", JList(<<>>)), Get(documents, "numFound", JInt(0))>>)
  IN IF response.kind # "dict" THEN Raise(AttrError(response, "get"))
     ELSE Docs(Get(response, "documents", JDict(<<>>)))

\* "'docs' in documents"
PyContains(container, s) ==
  CASE container.kind = "dict" -> Ok(HasKey(container, s))
    [] container.kind = "list" -> Ok(\E i \in DOMAIN container.val :
                                         container.val[i].kind = "str" /\ container.val[i].val = s)
    [] container.kind = "str" -> Ok(\E i \in 1..Len(container.val), j \in 1..Len(container.val) :
                                        SubSeq(container.val, i, j) = s)
    [] OTHER -> Raise("argument of type '" \o TypeName(container) \o "' is not iterable")

\* mutant: Shape B is detected by the count key "numFound"
parse_default_response_by_count(response) ==
  LET Dispatch(has_docs) ==
        IF ~has_docs.ok THEN Raise(has_docs.error)
        ELSE IF has_docs.val THEN parse_sse_response(response)
        ELSE parse_stdio_response(response)
  IN IF response.kind # "dict" THEN Raise(AttrError(response, "get"))
     ELSE Dispatch(PyContains(Get(response, "documents", JDict(<<>>)), "numFound"))

\* lines 52-72
parse_default_response(response) ==
  LET Dispatch(has_docs) ==
        IF ~has_docs.ok THEN Raise(has_docs.error)
        ELSE IF has_docs.val THEN parse_sse_response(response)
        ELSE parse_stdio_response(response)
  IN IF response.kind # "dict" THEN Raise(AttrError(response, "get"))
     ELSE Dispatch(PyContains(Get(response, "documents", JDict(<<>>)), "docs"))

(***************************************************************************)
(* server_stdio.py: the standalone STDIO server.  Its input models, its    *)
(* request and formatting helpers and its handlers are those of core.py    *)
(* and factory.py, statement for statement, except that the three handlers *)
(* that read documents have the lines below where the factory's handlers   *)
(* call mcp._response_parser.                                              *)
(***************************************************************************)
\* mutant: the standalone server reads the documents keyed by identifier
server_stdio_documents_keyed(response) ==
  LET Items(documents) ==
        IF documents.kind # "dict" THEN Raise(AttrError(documents, "items"))
        ELSE Ok(<<JList(StdioDocs(documents.val)), Get(response, "total", JInt(0))>>)
  IN IF response.kind # "dict" THEN Raise(AttrError(response, "get"))
     ELSE Items(Get(response, "documents", JDict(<<>>)))

\* server_stdio.py lines 574-576, 707-708, 968-970
server_stdio_documents(response) ==
  LET Docs(documents) ==
        IF documents.kind # "dict" THEN Raise(AttrError(documents, "get"))
        ELSE Ok(<<Get(documents, "docs", JList(<<>>)), Get(documents, "numFound", JInt(0))>>)
  IN IF response.kind # "dict" THEN Raise(AttrError(response, "get"))
     ELSE Docs(Get(response, "documents", JDict(<<>>)))

\* mutant: the handler calls parse_default_response
ApplyParserDefault(parser, response) == parse_default_response(response)

\* mcp._response_parser(response)
ApplyParser(parser, response) ==
  CASE parser = "parse_stdio_response" -> parse_stdio_response(response)
    [] parser = "parse_sse_response" -> parse_sse_response(response)
    [] parser = "server_stdio.py" -> server_stdio_documents(response)
    [] OTHER -> parse_default_response(response)

(***************************************************************************)
(* core.py                                                                 *)
(***************************************************************************)
API_BASE_URL == "https://search.worldbank.org/api/v3/wds"
CHARACTER_LIMIT == 25000

\* The outcome of client.get(API_BASE_URL, params): an HTTP response (status,
\* text, and the value response.json() yields when the text is JSON), or an
\* httpx.RequestError (connection failure, or the 30 s timeout expiring).
HttpResponse(status, text, is_json, body) ==
  [kind |-> "response", status |-> status, text |-> text, is_json |-> is_json,
   body |-> body, error |-> ""]
RequestError(msg) ==
  [kind |-> "request_error", status |-> 0, text |-> "", is_json |-> FALSE,
   body |-> None, error |-> msg]

\* make_api_request, from the outcome of the GET on
make_api_request(reply) ==
  IF reply.kind = "request_error"
  THEN Raise("Network error connecting to World Bank API: " \o reply.error \o ". "
             \o "Check your internet connection and try again.")
  ELSE IF reply.status < 200 \/ reply.status >= 300
  THEN Raise("World Bank API returned error " \o IntStr(reply.status) \o ": "
             \o reply.text \o ". "
             \o "This usually means invalid parameters or the API is unavailable. "
             \o "Try adjusting your search parameters or try again later.")
  ELSE IF ~reply.is_json
  THEN Raise("Expecting value: line 1 column 1 (char 0)")
  ELSE Ok(reply.body)

\* v == s for a str s
IsStr(v, s) == v.kind = "str" /\ v.val = s

\* "', '.join(doc[key]) if isinstance(doc[key], list) else doc[key]", formatted
ListOrScalar(v) ==
  IF v.kind = "list" THEN PyJoin(", ", v) ELSE Ok(PyStr(v))

format_document_markdown(doc) ==
  LET Block(title, doc_date, doc_type, doc_id, countries, abstract, pdf_url, report_num,
            has_lang, langs, has_theme, themes) ==
        IF ~countries.ok THEN Raise(countries.error)
        ELSE IF ~langs.ok THEN Raise(langs.error)
        ELSE IF ~themes.ok THEN Raise(themes.error)
        ELSE Ok("### " \o PyStr(title) \o "\n\n"
                \o "**Document ID:** " \o PyStr(doc_id) \o "\n"
                \o "**Report Number:** " \o PyStr(report_num) \o "\n"
                \o "**Type:** " \o PyStr(doc_type) \o "\n"
                \o "**Date:** " \o PyStr(doc_date) \o "\n"
                \o "**Countries:** " \o countries.val \o "\n"
                \o (IF has_lang THEN "**Languages:** " \o langs.val \o "\n" ELSE "")
                \o (IF has_theme THEN "**Major Themes:** " \o themes.val \o "\n" ELSE "")
                \o (IF Truthy(abstract) /\ ~IsStr(abstract, "No abstract available")
                    THEN "\n**Abstract:**\n" \o PyStr(abstract) \o "\n" ELSE "")
                \o (IF Truthy(pdf_url) /\ ~IsStr(pdf_url, "N/A")
                    THEN "\n**PDF URL:** " \o PyStr(pdf_url) \o "\n" ELSE "")
                \o "\n---\n")
      Joined(key) == IF Truthy(Get(doc, key, None)) THEN ListOrScalar(Item(doc, key)) ELSE Ok("")
  IN IF doc.kind # "dict" THEN Raise(AttrError(doc, "get"))
     ELSE Block(Get(doc, "display_title", Get(doc, "repnme", JStr("Untitled"))),
                Get(doc, "docdt", JStr("N/A")),
                Get(doc, "docty", JStr("N/A")),
                Get(doc, "id", Get(doc, "guid", JStr("N/A"))),
                IF Truthy(Get(doc, "count", None))
                THEN PyJoin(", ", Get(doc, "count", JList(<<>>))) ELSE Ok("N/A"),
                Get(doc, "abstracts", JStr("No abstract available")),
                Get(doc, "pdfurl", Get(doc, "url", JStr("N/A"))),
                Get(doc, "repnb", JStr("N/A")),
                Truthy(Get(doc, "lang", None)), Joined("lang"),
                Truthy(Get(doc, "majtheme", None)), Joined("majtheme"))

\* mutant: "topics": doc.get('topic'), without the default
format_document_json_partial(doc) ==
  IF doc.kind # "dict" THEN Raise(AttrError(doc, "get"))
  ELSE Ok(JDict(<<
    <<"id", Get(doc, "id", Get(doc, "guid", None))>>,
    <<"title", Get(doc, "display_title", Get(doc, "repnme", None))>>,
    <<"report_number", Get(doc, "repnb", None)>>,
    <<"document_type", Get(doc, "docty", None)>>,
    <<"document_date", Get(doc, "docdt", None)>>,
    <<"countries", Get(doc, "count", JList(<<>>))>>,
    <<"languages", Get(doc, "lang", JList(<<>>))>>,
    <<"abstract", Get(doc, "abstracts", None)>>,
    <<"major_themes", Get(doc, "majtheme", JList(<<>>))>>,
    <<"topics", Get(doc, "topic", None)>>,
    <<"pdf_url", Get(doc, "pdfurl", None)>>,
    <<"url", Get(doc, "url", None)>>,
    <<"project_id", Get(doc, "proid", None)>>,
    <<"project_name", Get(doc, "projn", None)>>,
    <<"sectors", Get(doc, "sectr_exact", JList(<<>>))>>,
    <<"keywords", Get(doc, "keywd", JList(<<>>))>>,
    <<"authors", Get(doc, "authr", JList(<<>>))>> >>))

format_document_json(doc) ==
  IF doc.kind # "dict" THEN Raise(AttrError(doc, "get"))
  ELSE Ok(JDict(<<
    <<"id", Get(doc, "id", Get(doc, "guid", None))>>,
    <<"title", Get(doc, "display_title", Get(doc, "repnme", None))>>,
    <<"report_number", Get(doc, "repnb", None)>>,
    <<"document_type", Get(doc, "docty", None)>>,
    <<"document_date", Get(doc, "docdt", None)>>,
    <<"countries", Get(doc, "count", JList(<<>>))>>,
    <<"languages", Get(doc, "lang", JList(<<>>))>>,
    <<"abstract", Get(doc, "abstracts", None)>>,
    <<"major_themes", Get(doc, "majtheme", JList(<<>>))>>,
    <<"topics", Get(doc, "topic", JList(<<>>))>>,
    <<"pdf_url", Get(doc, "pdfurl", None)>>,
    <<"url", Get(doc, "url", None)>>,
    <<"project_id", Get(doc, "proid", None)>>,
    <<"project_name", Get(doc, "projn", None)>>,
    <<"sectors", Get(doc, "sectr_exact", JList(<<>>))>>,
    <<"keywords", Get(doc, "keywd", JList(<<>>))>>,
    <<"authors", Get(doc, "authr", JList(<<>>))>> >>))

\* d[k] = v
SetItem(d, k, v) ==
  IF HasKey(d, k)
  THEN JDict([i \in DOMAIN d.val |-> IF d.val[i][1] = k THEN <<k, v>> ELSE d.val[i]])
  ELSE JDict(Append(d.val, <<k, v>>))

\* d.update(other)
RECURSIVE DictUpdate(_, _)
DictUpdate(d, other) ==
  IF Len(other) = 0 THEN d
  ELSE DictUpdate(SetItem(d, other[1][1], other[1][2]), Tail(other))

\* the keyword defaults of build_query_params
BuildArgs ==
  [query |-> None, countries |-> None, document_types |-> None, languages |-> None,
   date_from |-> None, date_to |-> None, limit |-> JInt(20), offset |-> JInt(0),
   sort_by |-> None, sort_order |-> None, facets |-> None, kwargs |-> <<>>]

\* mutant: the elements are joined with ","
CaretJoinedByComma(v) == JStr(PyJoin(",", v).val)

\* "'^'.join(v)" (lines 325, 328, 331)
CaretJoined(v) == JStr(PyJoin("^", v).val)

\* the i-th conditional assignment of build_query_params (lines 321-345)
ParamStep(a, i, params) ==
  CASE i = 1 -> IF Truthy(a.query) THEN SetItem(params, "qterm", a.query) ELSE params
    [] i = 2 -> IF Truthy(a.countries)
                THEN SetItem(params, "count_exact", CaretJoined(a.countries))
                ELSE params
    [] i = 3 -> IF Truthy(a.document_types)
                THEN SetItem(params, "docty_exact", CaretJoined(a.document_types))
                ELSE params
    [] i = 4 -> IF Truthy(a.languages)
                THEN SetItem(params, "lang_exact", CaretJoined(a.languages))
                ELSE params
    [] i = 5 -> IF Truthy(a.date_from) THEN SetItem(params, "strdate", a.date_from) ELSE params
    [] i = 6 -> IF Truthy(a.date_to) THEN SetItem(params, "enddate", a.date_to) ELSE params
    [] i = 7 -> IF Truthy(a.sort_by)
                THEN LET p == SetItem(params, "srt", a.sort_by)
                     IN IF Truthy(a.sort_order) THEN SetItem(p, "order", a.sort_order) ELSE p
                ELSE params
    [] OTHER -> IF Truthy(a.facets)
                THEN SetItem(params, "fct", JStr(PyJoin(",", a.facets).val))
                ELSE params

RECURSIVE ParamSteps(_, _, _)
ParamSteps(a, i, params) ==
  IF i > 8 THEN params ELSE ParamSteps(a, i + 1, ParamStep(a, i, params))

\* mutant: the keyword arguments are merged first, the computed keys after them
build_query_params_merged_first(a) ==
  LET params == SetItem(SetItem(SetItem(DictUpdate(JDict(<<>>), a.kwargs),
                                        "format", JStr("json")),
                                "rows", a.limit),
                        "os", a.offset)
  IN ParamSteps(a, 1, params)

\* build_query_params(**a): the lists it joins are List[str] by validation
build_query_params(a) ==
  LET params == JDict(<< <<"format", JStr("json")>>, <<"rows", a.limit>>, <<"os", a.offset>> >>)
  IN DictUpdate(ParamSteps(a, 1, params), a.kwargs)

\* mutant: the notice states the ceiling where the number of items belongs
TruncationNoticeOfLimit(data, limit) ==
  "\n\n**TRUNCATED**: Response exceeded " \o IntStr(limit) \o " characters.\n"
  \o "Showing partial results. Original had " \o IntStr(limit) \o " items.\n"
  \o "To see more results:\n"
  \o "- Use the 'offset' parameter for pagination\n"
  \o "- Add more specific filters (countries, document_types, dates)\n"
  \o "- Reduce the 'limit' parameter\n"

\* lines 359-364
TruncationNotice(data, limit) ==
  "\n\n**TRUNCATED**: Response exceeded " \o IntStr(limit) \o " characters.\n"
  \o "Showing partial results. Original had " \o IntStr(Len(data.val)) \o " items.\n"
  \o "To see more results:\n"
  \o "- Use the 'offset' parameter for pagination\n"
  \o "- Add more specific filters (countries, document_types, dates)\n"
  \o "- Reduce the 'limit' parameter\n"

\* mutant: the notice is appended to the uncut content
truncate_if_needed_uncut(content, data, limit) ==
  IF Len(content) <= limit THEN content
  ELSE content \o TruncationNotice(data, limit)

truncate_if_needed(content, data, limit) ==
  IF Len(content) <= limit THEN content
  ELSE SubSeq(content, 1, limit) \o TruncationNotice(data, limit)

(***************************************************************************)
(* factory.py: the tool handlers.                                          *)
(*                                                                         *)
(* A handler runs to its only await, the GET of make_api_request, and      *)
(* resumes with the outcome of that GET.  The resumed part is an operator  *)
(* of the server's parser, the validated input and the outcome; it yields  *)
(* the return statement taken (branch), the string returned (result), the  *)
(* locals docs_list and total, and the text of the exception raised on the *)
(* way, if any.                                                            *)
(***************************************************************************)
Return(branch, result, docs_list, total) ==
  [branch |-> branch, result |-> result, docs_list |-> docs_list, total |-> total,
   exception |-> ""]

\* leaving the handler with an exception the try statement does not catch
Propagate(prefix, error) ==
  [branch |-> "raised", result |-> "", docs_list |-> None, total |-> None,
   exception |-> error]

\* "except Exception as e: return f'{prefix}{str(e)}'"
ExceptException(prefix, error) ==
  [branch |-> "error", result |-> prefix \o error, docs_list |-> None, total |-> None,
   exception |-> error]

\* mutant: "total is None"
PyIsNone(v) == v.kind = "null"

\* total == 0
PyIsZero(v) == (v.kind = "int" /\ v.val = 0) \/ (v.kind = "bool" /\ ~v.val)

\* mutant: n <= v
PyLessOrEqual(n, v) ==
  IF v.kind = "int" THEN Ok(n <= v.val)
  ELSE Raise("'<' not supported between instances of 'int' and '" \o TypeName(v) \o "'")

\* n < v for an int n
PyLess(n, v) ==
  IF v.kind = "int" THEN Ok(n < v.val)
  ELSE Raise("'<' not supported between instances of 'int' and '" \o TypeName(v) \o "'")

\* mutant: each block is put before the blocks already written
RECURSIVE MarkdownOfDocsReversed(_)
MarkdownOfDocsReversed(docs) ==
  LET Added(first, rest) ==
        IF ~first.ok THEN first
        ELSE IF ~rest.ok THEN rest ELSE Ok(rest.val \o first.val)
  IN IF Len(docs) = 0 THEN Ok("")
     ELSE Added(format_document_markdown(docs[1]), MarkdownOfDocsReversed(Tail(docs)))

\* "for doc in docs: output += format_document_markdown(doc)"
RECURSIVE MarkdownOfDocs(_)
MarkdownOfDocs(docs) ==
  LET Added(first, rest) ==
        IF ~first.ok THEN first
        ELSE IF ~rest.ok THEN rest ELSE Ok(first.val \o rest.val)
  IN IF Len(docs) = 0 THEN Ok("")
     ELSE Added(format_document_markdown(docs[1]), MarkdownOfDocs(Tail(docs)))

\* "[format_document_json(doc) for doc in docs]"
RECURSIVE JsonOfDocs(_)
JsonOfDocs(docs) ==
  LET Added(first, rest) ==
        IF ~first.ok THEN first
        ELSE IF ~rest.ok THEN rest ELSE Ok(<<first.val>> \o rest.val)
  IN IF Len(docs) = 0 THEN Ok(<<>>)
     ELSE Added(format_document_json(docs[1]), JsonOfDocs(Tail(docs)))

MoreResultsHint(next_offset) ==
  "\n**More results available.** Use offset=" \o IntStr(next_offset)
  \o " to see the next page.\n"

\* the first failure among the results rs, in order, or Ok(TRUE)
RECURSIVE FirstError(_)
FirstError(rs) ==
  IF Len(rs) = 0 THEN Ok(TRUE)
  ELSE IF ~rs[1].ok THEN Raise(rs[1].error)
  ELSE FirstError(Tail(rs))

(***************************************************************************)
(* worldbank_search_documents                                              *)
(***************************************************************************)
SearchErrorPrefix == "Error searching World Bank documents: "

SearchNoResults ==
  "No documents found matching your query.\n\n"
  \o "Suggestions:\n"
  \o "- Try broader search terms\n"
  \o "- Remove some filters\n"
  \o "- Check spelling of country names or document types\n"
  \o "- Use the worldbank_explore_facets tool to see available filter values"

search_query_params(params) ==
  build_query_params([BuildArgs EXCEPT
    !.query = params.query, !.countries = params.countries,
    !.document_types = params.document_types, !.languages = params.languages,
    !.date_from = params.date_from, !.date_to = params.date_to,
    !.limit = params.limit, !.offset = params.offset,
    !.sort_by = params.sort_by, !.sort_order = params.sort_order])

\* lines 119-131: the active filters line
SearchFilters(params) ==
  LET filters ==
        (IF Truthy(params.countries)
         THEN <<"Countries: " \o PyJoin(", ", params.countries).val>> ELSE <<>>)
        \o (IF Truthy(params.document_types)
            THEN <<"Types: " \o PyJoin(", ", params.document_types).val>> ELSE <<>>)
        \o (IF Truthy(params.languages)
            THEN <<"Languages: " \o PyJoin(", ", params.languages).val>> ELSE <<>>)
        \o (IF Truthy(params.date_from) \/ Truthy(params.date_to)
            THEN <<"Dates: "
                   \o (IF Truthy(params.date_from) THEN params.date_from.val ELSE "any")
                   \o " to "
                   \o (IF Truthy(params.date_to) THEN params.date_to.val ELSE "any")>>
            ELSE <<>>)
  IN IF Len(filters) > 0 THEN "**Filters:** " \o JoinStrings(" | ", filters) \o "\n" ELSE ""

\* lines 113-144
SearchMarkdown(params, docs_list, total) ==
  LET Output(total_text, count, blocks, has_more) ==
        LET failed == FirstError(<<total_text, count, blocks, has_more>>)
        IN IF ~failed.ok THEN failed
           ELSE Ok("# World Bank Document Search Results\n\n"
                   \o "**Query:** " \o params.query.val \o "\n"
                   \o "**Total Results:** " \o total_text.val \o "\n"
                   \o "**Showing:** " \o IntStr(params.offset.val + 1) \o "-"
                   \o IntStr(params.offset.val + count.val) \o " of " \o total_text.val \o "\n"
                   \o SearchFilters(params)
                   \o "\n---\n\n"
                   \o blocks.val
                   \o (IF has_more.val THEN MoreResultsHint(params.offset.val + count.val)
                       ELSE ""))
      Blocks(docs) == IF docs.ok THEN MarkdownOfDocs(docs.val) ELSE docs
      HasMore(count) == IF count.ok THEN PyLess(params.offset.val + count.val, total) ELSE count
      Counted(count) ==
        Output(PyCommaFormat(total), count, Blocks(PyIter(docs_list)), HasMore(count))
  IN Counted(PyLen(docs_list))

\* lines 147-163: the structured result
SearchResultObject(params, docs_list, total) ==
  LET Result(count, has_more, documents) ==
        LET failed == FirstError(<<count, has_more, documents>>)
        IN IF ~failed.ok THEN failed
           ELSE Ok(JDict(<<
             <<"query", params.query>>,
             <<"total", total>>,
             <<"count", JInt(count.val)>>,
             <<"offset", params.offset>>,
             <<"limit", params.limit>>,
             <<"has_more", JBool(has_more.val)>>,
             <<"next_offset",
               IF has_more.val THEN JInt(params.offset.val + count.val) ELSE None>>,
             <<"filters", JDict(<<
                <<"countries", params.countries>>,
                <<"document_types", params.document_types>>,
                <<"languages", params.languages>>,
                <<"date_from", params.date_from>>,
                <<"date_to", params.date_to>> >>)>>,
             <<"documents", JList(documents.val)>> >>))
      Documents(docs) == IF docs.ok THEN JsonOfDocs(docs.val) ELSE docs
      HasMore(count) == IF count.ok THEN PyLess(params.offset.val + count.val, total) ELSE count
      Counted(count) == Result(count, HasMore(count), Documents(PyIter(docs_list)))
  IN Counted(PyLen(docs_list))

\* lines 98-170, from the outcome of the GET on
worldbank_search_documents(parser, params, reply) ==
  LET Truncated(output, docs_list, total) ==
        IF ~output.ok THEN ExceptException(SearchErrorPrefix, output.error)
        ELSE Return("assembled", truncate_if_needed(output.val, docs_list, CHARACTER_LIMIT),
                    docs_list, total)
      Dumped(result) == IF result.ok THEN Ok(json_dumps(result.val)) ELSE result
      Assemble(docs_list, total) ==
        IF PyIsZero(total) THEN Return("no_results", SearchNoResults, docs_list, total)
        ELSE IF params.response_format = "markdown"
        THEN Truncated(SearchMarkdown(params, docs_list, total), docs_list, total)
        ELSE Truncated(Dumped(SearchResultObject(params, docs_list, total)), docs_list, total)
      AfterParse(parsed) ==
        IF ~parsed.ok THEN ExceptException(SearchErrorPrefix, parsed.error)
        ELSE Assemble(parsed.val[1], parsed.val[2])
      AfterFetch(response) ==
        IF ~response.ok THEN ExceptException(SearchErrorPrefix, response.error)
        ELSE AfterParse(ApplyParser(parser, response.val))
  IN AfterFetch(make_api_request(reply))

(***************************************************************************)
(* worldbank_get_document_details                                          *)
(***************************************************************************)
DetailsErrorPrefix == "Error retrieving document details: "

DetailsNotFound(document_id) ==
  "Document with ID '" \o document_id \o "' not found.\n\n"
  \o "This could mean:\n"
  \o "- The document ID is incorrect\n"
  \o "- The document has been removed from the database\n"
  \o "- The ID format is invalid\n\n"
  \o "Try using worldbank_search_documents to find the correct document ID."

\* mutant: the identifier is sent as the search term, with the default page size
details_query_params_as_search(params) ==
  build_query_params([BuildArgs EXCEPT !.query = params.document_id])

details_query_params(params) ==
  build_query_params([BuildArgs EXCEPT
    !.limit = JInt(1), !.kwargs = << <<"id", params.document_id>> >>])

\* "if doc.get(key): output += f'{label}{joined}\n'" (lines 215-229)
DetailsField(doc, key, label) ==
  LET Line(text) == IF ~text.ok THEN text ELSE Ok(label \o text.val \o "\n")
  IN IF Truthy(Get(doc, key, None)) THEN Line(ListOrScalar(Item(doc, key))) ELSE Ok("")

\* docs_list[0]
FirstItem(docs_list) ==
  CASE docs_list.kind = "list" ->
         IF Len(docs_list.val) = 0 THEN Raise("list index out of range")
         ELSE Ok(docs_list.val[1])
    [] docs_list.kind = "str" -> Ok(JStr(SubSeq(docs_list.val, 1, 1)))
    [] docs_list.kind = "dict" -> Raise("0")
    [] OTHER -> Raise("'" \o TypeName(docs_list) \o "' object is not subscriptable")

\* lines 211-231
DetailsMarkdown(doc) ==
  LET Output(block, keywords, authors, sectors, topics) ==
        LET failed == IF ~block.ok THEN block
                      ELSE FirstError(<<keywords, authors, sectors, topics>>)
        IN IF ~failed.ok THEN failed
           ELSE Ok("# World Bank Document Details\n\n" \o block.val
                   \o keywords.val \o authors.val \o sectors.val \o topics.val)
  IN Output(format_document_markdown(doc),
            DetailsField(doc, "keywd", "\n**Keywords:** "),
            DetailsField(doc, "authr", "**Authors:** "),
            DetailsField(doc, "sectr_exact", "**Sectors:** "),
            DetailsField(doc, "topic", "**Topics:** "))

\* mutant: "if total == 0"
DetailsMissingByTotal(docs_list, total) == total.kind = "int" /\ total.val = 0

\* line 199: "if not docs_list"; the total the parser returned is discarded
DetailsMissing(docs_list, total) == ~Truthy(docs_list)

\* lines 194-238, from the outcome of the GET on
worldbank_get_document_details(parser, params, reply) ==
  LET Returned(output, docs_list, total) ==
        IF ~output.ok THEN ExceptException(DetailsErrorPrefix, output.error)
        ELSE Return("assembled", output.val, docs_list, total)
      Dumped(result) == IF result.ok THEN Ok(json_dumps(result.val)) ELSE result
      Render(doc, docs_list, total) ==
        IF ~doc.ok THEN ExceptException(DetailsErrorPrefix, doc.error)
        ELSE IF params.response_format = "markdown"
        THEN Returned(DetailsMarkdown(doc.val), docs_list, total)
        ELSE Returned(Dumped(format_document_json(doc.val)), docs_list, total)
      Assemble(docs_list, total) ==
        IF DetailsMissing(docs_list, total)
        THEN Return("not_found", DetailsNotFound(params.document_id.val), docs_list, total)
        ELSE Render(FirstItem(docs_list), docs_list, total)
      AfterParse(parsed) ==
        IF ~parsed.ok THEN ExceptException(DetailsErrorPrefix, parsed.error)
        ELSE Assemble(parsed.val[1], parsed.val[2])
      AfterFetch(response) ==
        IF ~response.ok THEN ExceptException(DetailsErrorPrefix, response.error)
        ELSE AfterParse(ApplyParser(parser, response.val))
  IN AfterFetch(make_api_request(reply))

(***************************************************************************)
(* worldbank_search_by_project                                             *)
(***************************************************************************)
ProjectErrorPrefix == "Error searching by project: "

ProjectUsageError ==
  "Error: Either project_id or project_name must be provided.\n\n"
  \o "Examples:\n"
  \o "- project_id='P123456'\n"
  \o "- project_name='Rural Education Project'\n"
  \o "- Both can be provided for more specific search"

ProjectNoResults(search_term) ==
  "No documents found for project: " \o search_term \o "\n\n"
  \o "This could mean:\n"
  \o "- The project ID or name is incorrect\n"
  \o "- The project has no publicly available documents\n"
  \o "- The project doesn't exist in the database\n\n"
  \o "Try:\n"
  \o "- Check the project ID format (usually P followed by numbers)\n"
  \o "- Search for the project by name using worldbank_search_documents\n"
  \o "- Use broader search terms"

\* mutant: "params.project_id is None and params.project_name is None"
ProjectIdentifiersNone(params) ==
  params.project_id.kind = "null" /\ params.project_name.kind = "null"

\* line 362: "not params.project_id and not params.project_name"
ProjectIdentifiersMissing(params) ==
  ~Truthy(params.project_id) /\ ~Truthy(params.project_name)

\* lines 371-380
project_query_params(params) ==
  LET Named(with_id) ==
        IF Truthy(params.project_name)
        THEN SetItem(with_id, "projn", params.project_name) ELSE with_id
      Identified(query_params) ==
        Named(IF Truthy(params.project_id)
              THEN SetItem(query_params, "proid", params.project_id) ELSE query_params)
  IN Identified(build_query_params([BuildArgs EXCEPT
                  !.limit = params.limit, !.offset = params.offset]))

\* lines 401-422
ProjectMarkdown(params, docs_list, total) ==
  LET Output(total_text, count, blocks, has_more) ==
        LET failed == FirstError(<<total_text, count, blocks, has_more>>)
        IN IF ~failed.ok THEN failed
           ELSE Ok("# World Bank Project Documents\n\n"
                   \o (IF Truthy(params.project_id)
                       THEN "**Project ID:** " \o params.project_id.val \o "\n" ELSE "")
                   \o (IF Truthy(params.project_name)
                       THEN "**Project Name:** " \o params.project_name.val \o "\n" ELSE "")
                   \o "**Total Documents:** " \o total_text.val \o "\n"
                   \o "**Showing:** " \o IntStr(params.offset.val + 1) \o "-"
                   \o IntStr(params.offset.val + count.val) \o " of " \o total_text.val \o "\n"
                   \o "\n---\n\n"
                   \o blocks.val
                   \o (IF has_more.val THEN MoreResultsHint(params.offset.val + count.val)
                       ELSE ""))
      Blocks(docs) == IF docs.ok THEN MarkdownOfDocs(docs.val) ELSE docs
      HasMore(count) == IF count.ok THEN PyLess(params.offset.val + count.val, total) ELSE count
      Counted(count) ==
        Output(PyCommaFormat(total), count, Blocks(PyIter(docs_list)), HasMore(count))
  IN Counted(PyLen(docs_list))

\* lines 425-435: the structured result
ProjectResultObject(params, docs_list, total) ==
  LET Result(count, has_more, documents) ==
        LET failed == FirstError(<<count, has_more, documents>>)
        IN IF ~failed.ok THEN failed
           ELSE Ok(JDict(<<
             <<"project_id", params.project_id>>,
             <<"project_name", params.project_name>>,
             <<"total", total>>,
             <<"count", JInt(count.val)>>,
             <<"offset", params.offset>>,
             <<"limit", params.limit>>,
             <<"has_more", JBool(has_more.val)>>,
             <<"next_offset",
               IF has_more.val THEN JInt(params.offset.val + count.val) ELSE None>>,
             <<"documents", JList(documents.val)>> >>))
      Documents(docs) == IF docs.ok THEN JsonOfDocs(docs.val) ELSE docs
      HasMore(count) == IF count.ok THEN PyLess(params.offset.val + count.val, total) ELSE count
      Counted(count) == Result(count, HasMore(count), Documents(PyIter(docs_list)))
  IN Counted(PyLen(docs_list))

\* lines 382-442, from the outcome of the GET on
worldbank_search_by_project(parser, params, reply) ==
  LET search_term == IF Truthy(params.project_id) THEN params.project_id
                     ELSE params.project_name
      Truncated(output, docs_list, total) ==
        IF ~output.ok THEN ExceptException(ProjectErrorPrefix, output.error)
        ELSE Return("assembled", truncate_if_needed(output.val, docs_list, CHARACTER_LIMIT),
                    docs_list, total)
      Dumped(result) == IF result.ok THEN Ok(json_dumps(result.val)) ELSE result
      Assemble(docs_list, total) ==
        IF PyIsZero(total)
        THEN Return("no_results", ProjectNoResults(PyStr(search_term)), docs_list, total)
        ELSE IF params.response_format = "markdown"
        THEN Truncated(ProjectMarkdown(params, docs_list, total), docs_list, total)
        ELSE Truncated(Dumped(ProjectResultObject(params, docs_list, total)), docs_list, total)
      AfterParse(parsed) ==
        IF ~parsed.ok THEN ExceptException(ProjectErrorPrefix, parsed.error)
        ELSE Assemble(parsed.val[1], parsed.val[2])
      AfterFetch(response) ==
        IF ~response.ok THEN ExceptException(ProjectErrorPrefix, response.error)
        ELSE AfterParse(ApplyParser(parser, response.val))
  IN AfterFetch(make_api_request(reply))

(***************************************************************************)
(* worldbank_explore_facets                                                *)
(***************************************************************************)
FacetsErrorPrefix == "Error exploring facets: "
FacetDisplayLimit == 50

NoFacetData ==
  "No facet data available.\n\n"
  \o "This could mean:\n"
  \o "- The requested facets don't exist\n"
  \o "- The query returned no matching documents\n\n"
  \o "Common facet names:\n"
  \o "- count_exact (countries)\n"
  \o "- lang_exact (languages)\n"
  \o "- docty_exact (document types)\n"
  \o "- majtheme_exact (major themes)\n"
  \o "- topic_exact (topics)"

facets_query_params(params) ==
  build_query_params([BuildArgs EXCEPT
    !.query = params.query, !.facets = params.facets,
    !.kwargs = << <<"rows", JInt(0)>> >>])

\* mutant: the loop of line 295 without the test of line 296; the last value
\* of a sequence of odd length is paired with None
FacetPairsPadded(facet_values) ==
  CASE facet_values.kind = "list" ->
         Ok([k \in 1..((Len(facet_values.val) + 1) \div 2) |->
               <<facet_values.val[2 * k - 1],
                 IF 2 * k <= Len(facet_values.val) THEN facet_values.val[2 * k] ELSE None>>])
    [] OTHER -> Raise("object of type '" \o TypeName(facet_values) \o "' has no len()")

\* lines 294-299: the <<value, count>> pairs of a facet's flat sequence
FacetPairs(facet_values) ==
  CASE facet_values.kind = "list" ->
         Ok([k \in 1..(Len(facet_values.val) \div 2) |->
               <<facet_values.val[2 * k - 1], facet_values.val[2 * k]>>])
    [] facet_values.kind = "str" ->
         Ok([k \in 1..(Len(facet_values.val) \div 2) |->
               <<JStr(SubSeq(facet_values.val, 2 * k - 1, 2 * k - 1)),
                 JStr(SubSeq(facet_values.val, 2 * k, 2 * k))>>])
    [] facet_values.kind = "dict" ->
         IF Len(facet_values.val) < 2 THEN Ok(<<>>) ELSE Raise("0")
    [] OTHER -> Raise("object of type '" \o TypeName(facet_values) \o "' has no len()")

\* the place list.sort(key=count, reverse=True) gives the j-th pair: behind
\* every pair of greater count and every earlier pair of equal count (the
\* sort is stable)
CountRank(pairs, j) ==
  1 + Cardinality({k \in DOMAIN pairs :
                     \/ pairs[k][2].val > pairs[j][2].val
                     \/ pairs[k][2].val = pairs[j][2].val /\ k < j})

SortedByCount(pairs) ==
  LET rank == [j \in DOMAIN pairs |-> CountRank(pairs, j)]
  IN [p \in DOMAIN pairs |-> pairs[CHOOSE j \in DOMAIN pairs : rank[j] = p]]

\* mutant: facet_pairs.sort is not called
SortFacetPairsSkipped(pairs) == Ok(pairs)

\* facet_pairs.sort(key=count, reverse=True); counts of two different types do
\* not compare (the replies modelled carry int counts, or one str among ints)
SortFacetPairs(pairs) ==
  LET n == Len(pairs)
      Unordered(odd) ==
        LET j == CHOOSE i \in odd : \A k \in odd : i >= k
        IN Raise("'<' not supported between instances of '" \o TypeName(pairs[j][2])
                 \o "' and '" \o TypeName(pairs[j + 1][2]) \o "'")
      Sorted(odd) == IF odd # {} THEN Unordered(odd) ELSE Ok(SortedByCount(pairs))
  IN IF n < 2 THEN Ok(pairs)
     ELSE Sorted({j \in 1..(n - 1) : pairs[j][2].kind # pairs[j + 1][2].kind})

\* facet_data[facet_name], after "facet_name in facet_data"
FacetValues(facet_data, facet_name) ==
  CASE facet_data.kind = "dict" -> Ok(Item(facet_data, facet_name))
    [] facet_data.kind = "list" -> Raise("list indices must be integers or slices, not str")
    [] OTHER -> Raise("string indices must be integers, not 'str'")

\* lines 306-307
FacetLines(pairs) ==
  LET counts == [k \in DOMAIN pairs |-> PyCommaFormat(pairs[k][2])]
      Lines(bad) ==
        IF bad # {} THEN counts[CHOOSE k \in bad : \A j \in bad : k <= j]
        ELSE Ok(JoinStrings("", [k \in DOMAIN pairs |->
                  "- **" \o PyStr(pairs[k][1]) \o "**: " \o counts[k].val
                  \o " documents\n"]))
  IN Lines({k \in DOMAIN pairs : ~counts[k].ok})

\* mutant: "continue" without the marker
NoDataSectionDropped(facet_name) == ""

\* line 289: the section of a requested facet that facet_data does not hold
NoDataSection(facet_name) == "## " \o facet_name \o "\n\n*No data available*\n\n"

\* mutant: the loop of line 306 runs over facet_pairs
TopPairsUncapped(facet_pairs) == facet_pairs

\* line 306: facet_pairs[:50]
TopPairs(facet_pairs) ==
  SubSeq(facet_pairs, 1,
         IF Len(facet_pairs) < FacetDisplayLimit THEN Len(facet_pairs) ELSE FacetDisplayLimit)

\* lines 288-312: one iteration of the markdown loop
FacetMarkdown(facet_data, facet_name) ==
  LET Section(shown, n) ==
        IF ~shown.ok THEN shown
        ELSE Ok("## " \o facet_name \o "\n\n"
                \o "Total unique values: " \o IntStr(n) \o "\n\n"
                \o shown.val
                \o (IF n > FacetDisplayLimit
                    THEN "\n*Showing top " \o IntStr(FacetDisplayLimit) \o " of " \o IntStr(n)
                         \o " total values*\n"
                    ELSE "")
                \o "\n")
      Listed(facet_pairs) ==
        IF ~facet_pairs.ok THEN facet_pairs
        ELSE Section(FacetLines(TopPairs(facet_pairs.val)), Len(facet_pairs.val))
      Paired(pairs) == Listed(IF pairs.ok THEN SortFacetPairs(pairs.val) ELSE pairs)
      Valued(facet_values) ==
        Paired(IF facet_values.ok THEN FacetPairs(facet_values.val) ELSE facet_values)
      Looked(present) ==
        IF ~present.ok THEN present
        ELSE IF ~present.val THEN Ok(NoDataSection(facet_name))
        ELSE Valued(FacetValues(facet_data, facet_name))
  IN Looked(PyContains(facet_data, facet_name))

RECURSIVE FacetsMarkdown(_, _)
FacetsMarkdown(facet_data, names) ==
  LET Added(first, rest) ==
        IF ~first.ok THEN first
        ELSE IF ~rest.ok THEN rest ELSE Ok(first.val \o rest.val)
  IN IF Len(names) = 0 THEN Ok("")
     ELSE Added(FacetMarkdown(facet_data, names[1].val),
                FacetsMarkdown(facet_data, Tail(names)))

\* lines 320-335: one iteration of the structured loop
FacetJson(facet_data, facet_name) ==
  LET Listed(facet_pairs) ==
        IF ~facet_pairs.ok THEN facet_pairs
        ELSE Ok(JList([i \in DOMAIN facet_pairs.val |->
                   JDict(<< <<"value", facet_pairs.val[i][1]>>,
                            <<"count", facet_pairs.val[i][2]>> >>)]))
      Paired(pairs) == Listed(IF pairs.ok THEN SortFacetPairs(pairs.val) ELSE pairs)
      Valued(facet_values) ==
        Paired(IF facet_values.ok THEN FacetPairs(facet_values.val) ELSE facet_values)
      Looked(present) ==
        IF ~present.ok THEN present
        ELSE IF ~present.val THEN Ok(JList(<<>>))
        ELSE Valued(FacetValues(facet_data, facet_name))
  IN Looked(PyContains(facet_data, facet_name))

RECURSIVE FacetsJson(_, _, _)
FacetsJson(facet_data, names, facets) ==
  LET Added(first) ==
        IF ~first.ok THEN first
        ELSE FacetsJson(facet_data, Tail(names), SetItem(facets, names[1].val, first.val))
  IN IF Len(names) = 0 THEN Ok(facets)
     ELSE Added(FacetJson(facet_data, names[1].val))

\* lines 317-338: the structured result
FacetsResultObject(params, facet_data) ==
  LET Result(facets) ==
        LET result == JDict(<< <<"facets", facets.val>> >>)
        IN IF ~facets.ok THEN facets
           ELSE Ok(IF Truthy(params.query) THEN SetItem(result, "query", params.query)
                   ELSE result)
  IN Result(FacetsJson(facet_data, params.facets.val, JDict(<<>>)))

\* lines 263-343, from the outcome of the GET on; the parser is not used
worldbank_explore_facets(params, reply) ==
  LET Returned(output) ==
        IF ~output.ok THEN ExceptException(FacetsErrorPrefix, output.error)
        ELSE Return("assembled", output.val, None, None)
      Dumped(result) == IF result.ok THEN Ok(json_dumps(result.val)) ELSE result
      Titled(body) ==
        IF ~body.ok THEN body
        ELSE Ok("# World Bank Document Facets\n\n"
                \o (IF Truthy(params.query)
                    THEN "**Filtered by query:** " \o params.query.val \o "\n\n"
                    ELSE "")
                \o body.val)
      Assemble(facet_data) ==
        IF ~facet_data.ok THEN ExceptException(FacetsErrorPrefix, facet_data.error)
        ELSE IF ~Truthy(facet_data.val) THEN Return("no_facet_data", NoFacetData, None, None)
        ELSE IF params.response_format = "markdown"
        THEN Returned(Titled(FacetsMarkdown(facet_data.val, params.facets.val)))
        ELSE Returned(Dumped(FacetsResultObject(params, facet_data.val)))
      AfterFetch(response) ==
        IF ~response.ok THEN ExceptException(FacetsErrorPrefix, response.error)
        ELSE Assemble(IF response.val.kind = "dict"
                      THEN Ok(Get(response.val, "facets", JDict(<<>>)))
                      ELSE Raise(AttrError(response.val, "get")))
  IN AfterFetch(make_api_request(reply))

(***************************************************************************)
(* core.py: the input models.  The hosting runtime validates the raw       *)
(* arguments of a tool call with the tool's pydantic model before it calls *)
(* the handler; a validation error ends the call without the handler.      *)
(***************************************************************************)
\* str_strip_whitespace=True
StripStr(v) == IF v.kind = "str" THEN JStr(Strip(v.val)) ELSE v

StripValue(v) ==
  IF v.kind = "list" THEN JList([i \in DOMAIN v.val |-> StripStr(v.val[i])])
  ELSE StripStr(v)

Digits == {"0", "1", "2", "3", "4", "5", "6", "7", "8", "9"}

\* pattern ^\d{4}-\d{2}-\d{2}$|^\d{2}-\d{2}-\d{4}$
IsDate(s) ==
  /\ Len(s) = 10
  /\ \/ /\ \A i \in {1, 2, 3, 4, 6, 7, 9, 10} : SubSeq(s, i, i) \in Digits
        /\ \A i \in {5, 8} : SubSeq(s, i, i) = "-"
     \/ /\ \A i \in {1, 2, 4, 5, 7, 8, 9, 10} : SubSeq(s, i, i) \in Digits
        /\ \A i \in {3, 6} : SubSeq(s, i, i) = "-"

\* Optional[str] with max_length
OptStr(v, max_length) == v.kind = "null" \/ (v.kind = "str" /\ Len(v.val) <= max_length)

\* Optional[List[str]] with max_items
OptStrList(v, max_items) ==
  v.kind = "null" \/ (/\ v.kind = "list"
               /\ Len(v.val) <= max_items
               /\ \A i \in DOMAIN v.val : v.val[i].kind = "str")

OptDate(v) == v.kind = "null" \/ (v.kind = "str" /\ IsDate(v.val))

IsFormat(v) == v \in {"markdown", "json"}

ValidationError == Raise("validation error")

\* mutant: limit is declared without ge and le
LimitFieldUnbounded(v) == v.kind = "int"

\* "limit: int = Field(default=20, ge=1, le=100)" (lines 94-99, 191-196)
LimitField(v) == v.kind = "int" /\ v.val >= 1 /\ v.val <= 100

\* "offset: int = Field(default=0, ge=0)" (lines 101-105, 198-202)
OffsetField(v) == v.kind = "int" /\ v.val >= 0

\* lines 49-120
WorldBankSearchInput(raw) ==
  LET Validated(p) ==
        IF /\ p.query.kind = "str" /\ Len(p.query.val) >= 1 /\ Len(p.query.val) <= 500
           /\ OptStrList(p.countries, 20)
           /\ OptStrList(p.document_types, 10)
           /\ OptStrList(p.languages, 5)
           /\ OptDate(p.date_from)
           /\ OptDate(p.date_to)
           /\ LimitField(p.limit)
           /\ OffsetField(p.offset)
           /\ p.sort_by.kind \in {"null", "str"}
           /\ p.sort_order.kind = "str" /\ p.sort_order.val \in {"asc", "desc"}
           /\ IsFormat(p.response_format)
        THEN Ok(p) ELSE ValidationError
  IN Validated([raw EXCEPT !.query = StripValue(@), !.countries = StripValue(@),
                           !.document_types = StripValue(@), !.languages = StripValue(@),
                           !.date_from = StripValue(@), !.date_to = StripValue(@),
                           !.sort_by = StripValue(@)])

\* lines 123-141
WorldBankDocumentDetailsInput(raw) ==
  LET Validated(p) ==
        IF /\ p.document_id.kind = "str"
           /\ Len(p.document_id.val) >= 1 /\ Len(p.document_id.val) <= 200
           /\ IsFormat(p.response_format)
        THEN Ok(p) ELSE ValidationError
  IN Validated([raw EXCEPT !.document_id = StripValue(@)])

\* lines 144-168
WorldBankExploreFacetsInput(raw) ==
  LET Validated(p) ==
        IF /\ p.facets.kind = "list" /\ Len(p.facets.val) >= 1 /\ Len(p.facets.val) <= 10
           /\ \A i \in DOMAIN p.facets.val : p.facets.val[i].kind = "str"
           /\ OptStr(p.query, 500)
           /\ IsFormat(p.response_format)
        THEN Ok(p) ELSE ValidationError
  IN Validated([raw EXCEPT !.facets = StripValue(@), !.query = StripValue(@)])

\* lines 171-212
WorldBankProjectSearchInput(raw) ==
  LET Validated(p) ==
        IF /\ OptStr(p.project_id, 100)
           /\ OptStr(p.project_name, 500)
           /\ LimitField(p.limit)
           /\ OffsetField(p.offset)
           /\ IsFormat(p.response_format)
        THEN Ok(p) ELSE ValidationError
  IN Validated([raw EXCEPT !.project_id = StripValue(@), !.project_name = StripValue(@)])

(***************************************************************************)
(* The environment: document records and replies of the upstream API, and  *)
(* the raw arguments the runtime passes.                                   *)
(***************************************************************************)
MaxDocs == 2            \* most documents in one reply
LongTextLen == 26000    \* length of the longest abstract

RECURSIVE Repeat(_, _)
Repeat(s, n) ==
  IF n = 0 THEN ""
  ELSE IF n % 2 = 1 THEN s \o Repeat(s, n - 1)
  ELSE LET h == Repeat(s, n \div 2) IN h \o h

Strs(xs) == JList([i \in DOMAIN xs |-> JStr(xs[i])])

DocFull == JDict(<<
  <<"id", JStr("D1")>>,
  <<"display_title", JStr("Kenya Water Report")>>,
  <<"docdt", JStr("2020-01-15T00:00:00Z")>>,
  <<"docty", JStr("Report")>>,
  <<"count", Strs(<<"Kenya", "Brazil">>)>>,
  <<"lang", JStr("English")>>,
  <<"majtheme", Strs(<<"Water", "Climate">>)>>,
  <<"abstracts", JStr("A \"short\" abstract.\nSecond line.")>>,
  <<"pdfurl", JStr("http://documents.worldbank.org/D1.pdf")>>,
  <<"repnb", JStr("R1")>>,
  <<"proid", JStr("P1")>>,
  <<"keywd", Strs(<<"water">>)>>,
  <<"authr", JStr("Smith")>> >>)

\* fallback keys, a scalar where a list is usual and a list where a scalar is
DocGuid == JDict(<<
  <<"guid", JStr("G2")>>,
  <<"repnme", JStr("Report two")>>,
  <<"count", JStr("Kenya")>>,
  <<"lang", Strs(<<"English", "French">>)>>,
  <<"majtheme", JStr("Water")>>,
  <<"url", JStr("http://documents.worldbank.org/G2")>>,
  <<"topic", None>> >>)

\* no recognised field
DocEmpty == JDict(<< <<"score", JInt(1)>> >>)

\* a country list that str.join rejects
DocBadCount == JDict(<< <<"id", JStr("D4")>>, <<"count", JList(<<JInt(404)>>)>> >>)

DocLong == JDict(<<
  <<"id", JStr("D5")>>,
  <<"abstracts", JStr(Repeat("a", LongTextLen))>> >>)

Corpus == <<DocFull, DocGuid, DocEmpty, DocLong, DocBadCount>>
DocKeys == <<"D1", "G2", "K3", "D5", "D4">>

\* the pages the upstream can return: runs of the corpus of at most MaxDocs
\* records, as <<first, last>> positions
Pages ==
  {<<1, 0>>} \cup {pg \in (1..Len(Corpus)) \X (1..Len(Corpus)) :
                      pg[1] <= pg[2] /\ pg[2] - pg[1] < MaxDocs}

PageDocs(pg) == SubSeq(Corpus, pg[1], pg[2])
PageSize(pg) == pg[2] - pg[1] + 1

\* the totals a reply may state for a page
Totals(pg) == {0, PageSize(pg), 57}

\* Shape A: documents keyed by identifier, the facets entry among them
ShapeADocuments(pg) ==
  JDict([i \in 1..PageSize(pg) |-> <<DocKeys[pg[1] + i - 1], Corpus[pg[1] + i - 1]>>]
        \o << <<"facets", JDict(<<>>)>> >>)

ShapeA(pg, total) ==
  JDict(<< <<"rows", JInt(20)>>, <<"os", JInt(0)>>, <<"page", JInt(1)>>,
           <<"total", JInt(total)>>, <<"documents", ShapeADocuments(pg)>> >>)

\* Shape B: documents.docs and documents.numFound
ShapeB(pg, numFound) ==
  JDict(<< <<"documents", JDict(<< <<"numFound", JInt(numFound)>>,
                                   <<"docs", JList(PageDocs(pg))>> >>)>> >>)

CountryFacet == JList(<<JStr("A"), JInt(3), JStr("B"), JInt(7), JStr("C"), JInt(3)>>)
OddFacet == JList(<<JStr("English"), JInt(1200), JStr("French")>>)
UnpairedFacet ==
  JList(<<JStr("Kenya"), JInt(3), JStr("Ghana"), JInt(7), JStr("Peru")>>)
LoneFacet == JList(<<JStr("French")>>)

\* envelopes with a missing or empty collection, or without a count
SparseBodies ==
  << JDict(<<>>),
     JDict(<< <<"documents", JDict(<<>>)>> >>),
     JDict(<< <<"total", JInt(3)>>, <<"documents", JDict(<<>>)>> >>),
     JDict(<< <<"documents", ShapeADocuments(<<1, 1>>)>> >>),
     JDict(<< <<"documents", JDict(<< <<"docs", JList(PageDocs(<<1, 1>>))>> >>)>> >>),
     JDict(<< <<"total", JInt(1)>>,
              <<"documents", JDict(<< <<"D1", DocFull>>, <<"note", JStr("text")>> >>)>> >>) >>

\* JSON of another shape than the adapter expects
MalformedBodies ==
  << JList(<<>>),
     JDict(<< <<"documents", JList(<<>>)>> >>),
     JDict(<< <<"documents", JDict(<< <<"numFound", JInt(1)>>,
                                      <<"docs", Strs(<<"text">>)>> >>)>> >>),
     JDict(<< <<"documents", JDict(<< <<"numFound", JStr("57")>>,
                                      <<"docs", JList(<<DocFull>>)>> >>)>> >>) >>

\* a facet of n values "v1" .. "vn", whose counts repeat and are not in order
LongFacet(n) ==
  JList([i \in 1..(2 * n) |->
           IF i % 2 = 1 THEN JStr("v" \o ToString((i + 1) \div 2))
           ELSE JInt(1000 + (((i \div 2) * 7) % 23))])

FacetBodies ==
  << JDict(<< <<"total", JInt(57)>>,
              <<"documents", JDict(<< <<"facets", JDict(<<>>)>> >>)>>,
              <<"facets", JDict(<< <<"count_exact", CountryFacet>>,
                                   <<"lang_exact", OddFacet>> >>)>> >>),
     JDict(<< <<"total", JInt(57)>>,
              <<"documents", JDict(<< <<"facets",
                   JDict(<< <<"count_exact", CountryFacet>> >>)>> >>)>> >>),
     JDict(<< <<"facets", JDict(<< <<"count_exact",
                   JList(<<JStr("A"), JInt(3), JStr("B"), JStr("x")>>)>> >>)>> >>),
     JDict(<< <<"facets", JDict(<< <<"docty_exact", LongFacet(FacetDisplayLimit + 1)>>,
                                   <<"majtheme_exact", LongFacet(FacetDisplayLimit)>> >>)>> >>),
     JDict(<< <<"facets", JDict(<< <<"count_exact", UnpairedFacet>>,
                                   <<"lang_exact", LoneFacet>> >>)>> >>) >>

\* GETs that do not end with a JSON body; text is read for an error status only
Failures ==
  << HttpResponse(200, "<html>", FALSE, None),
     HttpResponse(400, "Bad Request", FALSE, None),
     HttpResponse(500, "Internal Server Error", FALSE, None),
     RequestError("timed out"),
     RequestError("[Errno 111] Connection refused") >>

\* the outcomes of a GET, named <<family, i, j, total>>
ReplyIds ==
  {id \in {"A", "B"} \X (1..Len(Corpus)) \X (0..Len(Corpus)) \X ({0, 57} \cup (1..MaxDocs)) :
     <<id[2], id[3]>> \in Pages /\ id[4] \in Totals(<<id[2], id[3]>>)}
  \cup {<<"sparse", k, 0, 0>> : k \in DOMAIN SparseBodies}
  \cup {<<"malformed", k, 0, 0>> : k \in DOMAIN MalformedBodies}
  \cup {<<"facets", k, 0, 0>> : k \in DOMAIN FacetBodies}
  \cup {<<"failure", k, 0, 0>> : k \in DOMAIN Failures}

ReplyOf(id) ==
  CASE id[1] = "A" -> HttpResponse(200, "", TRUE, ShapeA(<<id[2], id[3]>>, id[4]))
    [] id[1] = "B" -> HttpResponse(200, "", TRUE, ShapeB(<<id[2], id[3]>>, id[4]))
    [] id[1] = "sparse" -> HttpResponse(200, "", TRUE, SparseBodies[id[2]])
    [] id[1] = "malformed" -> HttpResponse(200, "", TRUE, MalformedBodies[id[2]])
    [] id[1] = "facets" -> HttpResponse(200, "", TRUE, FacetBodies[id[2]])
    [] OTHER -> Failures[id[2]]

\* raw tool arguments
SearchArgs ==
  [query |-> JStr("water"), countries |-> None, document_types |-> None,
   languages |-> None, date_from |-> None, date_to |-> None,
   limit |-> JInt(20), offset |-> JInt(0), sort_by |-> JStr("docdt"),
   sort_order |-> JStr("desc"), response_format |-> "markdown"]

SearchInputs ==
  << SearchArgs,
     [SearchArgs EXCEPT !.response_format = "json"],
     [SearchArgs EXCEPT !.query = JStr(" water "), !.offset = JInt(56)],
     [SearchArgs EXCEPT !.offset = JInt(56), !.response_format = "json"],
     [SearchArgs EXCEPT !.countries = Strs(<<"Kenya", "Brazil">>),
                        !.languages = Strs(<<"English">>),
                        !.date_from = JStr("2020-01-01"), !.limit = JInt(100)],
     [SearchArgs EXCEPT !.countries = Strs(<<>>),
                        !.document_types = Strs(<<"Report", " Brief ">>)],
     [SearchArgs EXCEPT !.query = JStr("  ")],
     [SearchArgs EXCEPT !.limit = JInt(0)],
     [SearchArgs EXCEPT !.limit = JInt(101)],
     [SearchArgs EXCEPT !.offset = JInt(-1)],
     [SearchArgs EXCEPT !.date_to = JStr("2020/01/01")] >>

Formats == <<"markdown", "json">>

DetailsInputs ==
  << [document_id |-> JStr("D1"), response_format |-> "markdown"],
     [document_id |-> JStr("D1"), response_format |-> "json"],
     [document_id |-> JStr(" G2 "), response_format |-> "markdown"],
     [document_id |-> JStr("  "), response_format |-> "json"] >>

FacetsInputs ==
  << [facets |-> Strs(<<"count_exact", "lang_exact">>), query |-> None,
      response_format |-> "markdown"],
     [facets |-> Strs(<<"count_exact", "lang_exact">>), query |-> JStr("water"),
      response_format |-> "json"],
     [facets |-> Strs(<<"topic_exact", "count_exact">>), query |-> JStr(""),
      response_format |-> "markdown"],
     [facets |-> Strs(<<"topic_exact", "count_exact">>), query |-> None,
      response_format |-> "json"],
     [facets |-> Strs(<<"docty_exact", "majtheme_exact">>), query |-> None,
      response_format |-> "markdown"],
     [facets |-> Strs(<<"docty_exact", "majtheme_exact">>), query |-> None,
      response_format |-> "json"],
     [facets |-> Strs(<<>>), query |-> None, response_format |-> "json"] >>

ProjectArgs ==
  [project_id |-> None, project_name |-> None, limit |-> JInt(20), offset |-> JInt(0),
   response_format |-> "markdown"]

ProjectIdentifiers ==
  << <<None, None>>, <<JStr(""), JStr("")>>, <<JStr("  "), None>>,
     <<JStr("P1"), None>>, <<None, JStr(" Rural Education ")>>,
     <<JStr("P1"), JStr("Rural Education")>> >>

ProjectInputs ==
  [i \in 1..(2 * Len(ProjectIdentifiers)) |->
     [ProjectArgs EXCEPT !.project_id = ProjectIdentifiers[(i + 1) \div 2][1],
                         !.project_name = ProjectIdentifiers[(i + 1) \div 2][2],
                         !.response_format = Formats[(i % 2) + 1]]]
  \o << [ProjectArgs EXCEPT !.project_id = JStr("P1"), !.limit = JInt(101)],
        [ProjectArgs EXCEPT !.project_id = JStr("P1"), !.offset = JInt(56),
                            !.response_format = "json"],
        [ProjectArgs EXCEPT !.project_name = JStr("Rural Education"), !.limit = JInt(0)],
        [ProjectArgs EXCEPT !.project_id = JStr("P1"), !.offset = JInt(-1)] >>

(***************************************************************************)
(* The server and its tool calls.                                          *)
(*                                                                         *)
(* response_parser is mcp._response_parser.  calls[c] is one invocation of  *)
(* a tool by the hosting runtime: the validated input (params), the        *)
(* requests it has sent upstream, the outcome of its GET (reply) and what   *)
(* the handler returned (ret).                                             *)
(***************************************************************************)
Parsers == {"parse_stdio_response", "parse_sse_response", "parse_default_response"}
CallIds == {"call"}

IdleCall ==
  [pc |-> "idle", tool |-> "", input |-> None, params |-> None, requests |-> <<>>,
   reply |-> None, ret |-> None]

\* create_worldbank_server(transport, port, response_parser): a server exists
\* only for a parser that is not None (lines 55-58)
Init ==
  /\ response_parser \in Parsers
  /\ calls = [c \in CallIds |-> IdleCall]

\* mutant: a failed GET is tried once more
SentRequestsRetried(query_params, reply) ==
  IF reply.kind = "request_error" \/ reply.status >= 300
  THEN <<query_params, query_params>>
  ELSE <<query_params>>

\* the requests client.get has sent when the GET has ended with reply: one,
\* whatever the outcome (core.py line 226)
SentRequests(query_params, reply) == <<query_params>>

\* the input fails validation: the runtime does not call the handler
Rejected(tool, raw) ==
  [pc |-> "rejected", tool |-> tool, input |-> raw, params |-> None, requests |-> <<>>,
   reply |-> None, ret |-> None]

\* the handler has built query_params and awaits make_api_request
Awaiting(tool, raw, params, query_params) ==
  [pc |-> "awaiting", tool |-> tool, input |-> raw, params |-> params,
   requests |-> <<query_params>>, reply |-> None, ret |-> None]

\* mutant: after a failure at the network layer the handler awaits the GET again
FinishedPending(call, requests, reply, ret) ==
  [pc |-> IF reply.kind = "request_error" THEN "awaiting"
          ELSE IF ret.branch = "raised" THEN "raised" ELSE "returned",
   tool |-> call.tool, input |-> call.input, params |-> call.params, requests |-> requests,
   reply |-> reply, ret |-> ret]

\* the handler is left, by return or by an uncaught exception
Finished(call, requests, reply, ret) ==
  [pc |-> IF ret.branch = "raised" THEN "raised" ELSE "returned",
   tool |-> call.tool, input |-> call.input, params |-> call.params, requests |-> requests,
   reply |-> reply, ret |-> ret]

\* factory.py lines 82-98
CallSearchDocuments(c) ==
  /\ calls[c].pc = "idle"
  /\ \E i \in DOMAIN SearchInputs :
       LET Enter(raw, params) ==
             IF ~params.ok THEN Rejected("search_documents", raw)
             ELSE Awaiting("search_documents", raw, params.val,
                           search_query_params(params.val))
           Invoke(raw) == Enter(raw, WorldBankSearchInput(raw))
       IN calls' = [calls EXCEPT ![c] = Invoke(SearchInputs[i])]
  /\ UNCHANGED response_parser

\* factory.py lines 186-194
CallGetDocumentDetails(c) ==
  /\ calls[c].pc = "idle"
  /\ \E i \in DOMAIN DetailsInputs :
       LET Enter(raw, params) ==
             IF ~params.ok THEN Rejected("get_document_details", raw)
             ELSE Awaiting("get_document_details", raw, params.val,
                           details_query_params(params.val))
           Invoke(raw) == Enter(raw, WorldBankDocumentDetailsInput(raw))
       IN calls' = [calls EXCEPT ![c] = Invoke(DetailsInputs[i])]
  /\ UNCHANGED response_parser

\* factory.py lines 254-263
CallExploreFacets(c) ==
  /\ calls[c].pc = "idle"
  /\ \E i \in DOMAIN FacetsInputs :
       LET Enter(raw, params) ==
             IF ~params.ok THEN Rejected("explore_facets", raw)
             ELSE Awaiting("explore_facets", raw, params.val,
                           facets_query_params(params.val))
           Invoke(raw) == Enter(raw, WorldBankExploreFacetsInput(raw))
       IN calls' = [calls EXCEPT ![c] = Invoke(FacetsInputs[i])]
  /\ UNCHANGED response_parser

\* factory.py lines 359-382
CallSearchByProject(c) ==
  /\ calls[c].pc = "idle"
  /\ \E i \in DOMAIN ProjectInputs :
       LET Enter(raw, params) ==
             IF ~params.ok THEN Rejected("search_by_project", raw)
             ELSE IF ProjectIdentifiersMissing(params.val)
             THEN Finished([IdleCall EXCEPT !.tool = "search_by_project", !.input = raw,
                                            !.params = params.val],
                           <<>>, None, Return("usage_error", ProjectUsageError, None, None))
             ELSE Awaiting("search_by_project", raw, params.val,
                           project_query_params(params.val))
           Invoke(raw) == Enter(raw, WorldBankProjectSearchInput(raw))
       IN calls' = [calls EXCEPT ![c] = Invoke(ProjectInputs[i])]
  /\ UNCHANGED response_parser

\* mutant: with the Shape-A parser, explore_facets takes the facet data from
\* the facets entry of the documents collection
ResumeWithParsedFacets(call, parser, reply) ==
  CASE call.tool = "search_documents" ->
         worldbank_search_documents(parser, call.params, reply)
    [] call.tool = "get_document_details" ->
         worldbank_get_document_details(parser, call.params, reply)
    [] call.tool = "explore_facets" ->
         worldbank_explore_facets(call.params,
           IF /\ parser = "parse_stdio_response"
              /\ reply.kind = "response" /\ reply.body.kind = "dict"
              /\ Get(reply.body, "documents", None).kind = "dict"
           THEN [reply EXCEPT !.body = SetItem(reply.body, "facets",
                   Get(Item(reply.body, "documents"), "facets", JDict(<<>>)))]
           ELSE reply)
    [] OTHER ->
         worldbank_search_by_project(parser, call.params, reply)

\* the rest of the handler that the standalone server of server_stdio.py has
\* for the tool of call, resumed with the outcome of its GET
StandaloneResume(call, reply) ==
  CASE call.tool = "search_documents" ->
         worldbank_search_documents("server_stdio.py", call.params, reply)
    [] call.tool = "get_document_details" ->
         worldbank_get_document_details("server_stdio.py", call.params, reply)
    [] call.tool = "explore_facets" ->
         worldbank_explore_facets(call.params, reply)
    [] OTHER ->
         worldbank_search_by_project("server_stdio.py", call.params, reply)

\* the rest of the handler of call, resumed with the outcome of its GET
Resume(call, parser, reply) ==
  CASE call.tool = "search_documents" ->
         worldbank_search_documents(parser, call.params, reply)
    [] call.tool = "get_document_details" ->
         worldbank_get_document_details(parser, call.params, reply)
    [] call.tool = "explore_facets" ->
         worldbank_explore_facets(call.params, reply)
    [] OTHER ->
         worldbank_search_by_project(parser, call.params, reply)

\* mutant: the fetched response is kept in a variable of the module, where a
\* concurrent invocation that has ended left its own
RespondWithShared(c, ids) ==
  /\ calls[c].pc = "awaiting"
  /\ \E id \in ids :
       LET Others == {d \in DOMAIN calls : d # c /\ calls[d].reply.kind # "null"}
           Shared(reply) == IF Others = {} THEN reply ELSE calls[CHOOSE d \in Others : TRUE].reply
           Leave(reply) ==
             Finished(calls[c], SentRequests(calls[c].requests[1], reply), reply,
                      Resume(calls[c], response_parser, Shared(reply)))
       IN calls' = [calls EXCEPT ![c] = Leave(ReplyOf(id))]
  /\ UNCHANGED response_parser

\* the GET of call c ends with one of the outcomes ids, and the handler runs
\* to its end
RespondWith(c, ids) ==
  /\ calls[c].pc = "awaiting"
  /\ \E id \in ids :
       LET Leave(reply) ==
             Finished(calls[c], SentRequests(calls[c].requests[1], reply), reply,
                      Resume(calls[c], response_parser, reply))
       IN calls' = [calls EXCEPT ![c] = Leave(ReplyOf(id))]
  /\ UNCHANGED response_parser

Respond(c) == RespondWith(c, ReplyIds)

\* the runtime has the outcome; the request objects are discarded
Discard(c) ==
  /\ calls[c].pc \in {"returned", "rejected", "raised"}
  /\ calls' = [calls EXCEPT ![c] = IdleCall]
  /\ UNCHANGED response_parser

Next ==
  \E c \in CallIds :
    \/ CallSearchDocuments(c)
    \/ CallGetDocumentDetails(c)
    \/ CallExploreFacets(c)
    \/ CallSearchByProject(c)
    \/ Respond(c)
    \/ Discard(c)

Spec == Init /\ [][Next]_vars

\* The GET of call c is given up: httpx.AsyncClient(timeout=REQUEST_TIMEOUT)
\* raises a RequestError when the connection or a read stalls for the timeout
\* (core.py lines 26 and 224-226, 236-239), and the handler runs to its end.
\* The outcome is Failures[4].
TimedOut(c) == RespondWith(c, {<<"failure", 4, 0, 0>>})

\* A GET that nothing else ends is ended by its timeout.
FairSpec == Spec /\ \A c \in CallIds : WF_vars(TimedOut(c))

\* equality of JSON values
RECURSIVE JsonEq(_, _)
JsonEq(a, b) ==
  /\ a.kind = b.kind
  /\ CASE a.kind = "null" -> TRUE
       [] a.kind \in {"bool", "int", "str"} -> a.val = b.val
       [] a.kind = "list" ->
            /\ Len(a.val) = Len(b.val)
            /\ \A i \in DOMAIN a.val : JsonEq(a.val[i], b.val[i])
       [] OTHER ->
            /\ Len(a.val) = Len(b.val)
            /\ \A i \in DOMAIN a.val :
                 a.val[i][1] = b.val[i][1] /\ JsonEq(a.val[i][2], b.val[i][2])

(***************************************************************************)
(* Two invocations that the runtime runs concurrently on one server.  The  *)
(* handlers are coroutines of one event loop: a handler runs from its call *)
(* to its await of the GET, and from the end of the GET to its return,     *)
(* without interruption, and the steps of the two interleave freely.       *)
(***************************************************************************)
ConcurrentIds == {"first", "second"}

\* the outcomes of a GET the concurrent invocations receive
ConcurrentReplies ==
  {<<"A", 1, 1, 1>>, <<"B", 1, 2, 57>>, <<"facets", 1, 0, 0>>, <<"failure", 4, 0, 0>>}

\* the arguments the concurrent invocations are called with
ConcurrentInput(tool, raw) ==
  CASE tool = "search_documents" ->
         /\ raw.query.val = "water" /\ raw.countries.kind = "null"
         /\ raw.date_to.kind = "null" /\ raw.offset.val = 0 /\ raw.limit.val \in {0, 20}
         /\ raw.response_format = "markdown"
    [] tool = "get_document_details" ->
         raw.document_id.val = "D1" /\ raw.response_format = "json"
    [] tool = "explore_facets" ->
         /\ Len(raw.facets.val) = 2 /\ raw.facets.val[1].val = "count_exact"
         /\ raw.query.kind = "null" /\ raw.response_format = "markdown"
    [] OTHER ->
         /\ raw.project_name.kind = "null" /\ raw.limit.val = 20 /\ raw.offset.val = 0
         /\ raw.project_id.kind = "null" \/ raw.project_id.val = "P1"
         /\ raw.response_format = "json"

ConcurrentCall(call) == ConcurrentInput(call.tool, call.input)

ConcurrentInit ==
  /\ response_parser \in Parsers
  /\ calls = [c \in ConcurrentIds |-> IdleCall]

ConcurrentNext ==
  \E c \in ConcurrentIds :
    \/ CallSearchDocuments(c) /\ ConcurrentCall(calls'[c])
    \/ CallGetDocumentDetails(c) /\ ConcurrentCall(calls'[c])
    \/ CallExploreFacets(c) /\ ConcurrentCall(calls'[c])
    \/ CallSearchByProject(c) /\ ConcurrentCall(calls'[c])
    \/ RespondWith(c, ConcurrentReplies)
    \/ Discard(c)

ConcurrentSpec == ConcurrentInit /\ [][ConcurrentNext]_vars

(***************************************************************************)
(* Properties.                                                             *)
(***************************************************************************)
StartsWith(s, prefix) == Len(s) >= Len(prefix) /\ SubSeq(s, 1, Len(prefix)) = prefix

IsInt(v, n) == v.kind = "int" /\ v.val = n

ErrorPrefix(tool) ==
  CASE tool = "search_documents" -> SearchErrorPrefix
    [] tool = "get_document_details" -> DetailsErrorPrefix
    [] tool = "explore_facets" -> FacetsErrorPrefix
    [] OTHER -> ProjectErrorPrefix

\* the GET of the call failed: error status, network error or timeout
FetchFailed(call) ==
  /\ call.pc \in {"returned", "raised"}
  /\ Len(call.requests) > 0
  /\ \/ call.reply.kind = "request_error"
     \/ call.reply.status < 200
     \/ call.reply.status >= 300

\* the call went through the parser and returned past it without an exception
Parsed(call) ==
  /\ call.pc = "returned"
  /\ call.tool \in {"search_documents", "get_document_details", "search_by_project"}
  /\ call.ret.branch \in {"no_results", "not_found", "assembled"}

\* the call of search_documents or search_by_project returned an assembled page
Assembled(call) ==
  /\ call.pc = "returned"
  /\ call.tool \in {"search_documents", "search_by_project"}
  /\ call.ret.branch = "assembled"

\* C1: the string search_documents and search_by_project return after
\* assembling and truncating, in markdown and in json mode, is never longer
\* than CHARACTER_LIMIT plus the length of the truncation notice.
C1_TruncatedLength ==
  \A c \in CallIds :
    Assembled(calls[c]) =>
      Len(calls[c].ret.result)
        <= 25000 + Len(TruncationNotice(calls[c].ret.docs_list, 25000))

\* an assembled page of each tool and mode that was cut at the ceiling
C1_Witness ==
  \E c \in CallIds :
    /\ Assembled(calls[c])
    /\ calls[c].tool = "search_by_project"
    /\ calls[c].params.response_format = "json"
    /\ Len(calls[c].ret.docs_list.val) = 2
    /\ Len(calls[c].ret.result)
         = 25000 + Len(TruncationNotice(calls[c].ret.docs_list, 25000))

\* C2: an exception raised at any step of a handler is caught at its
\* boundary: the call returns a string that starts with the tool's error
\* prefix, and no call ends by raising.
C2_ExceptionsCaught ==
  \A c \in CallIds :
    /\ calls[c].pc # "raised"
    /\ FetchFailed(calls[c]) => calls[c].ret.exception # ""
    /\ (calls[c].pc = "returned" /\ calls[c].ret.exception # "") =>
         /\ calls[c].ret.branch = "error"
         /\ StartsWith(calls[c].ret.result, ErrorPrefix(calls[c].tool))
         /\ calls[c].ret.result = ErrorPrefix(calls[c].tool) \o calls[c].ret.exception

\* an exception of the format step (a JSON reply was fetched and parsed)
C2_Witness ==
  \E c \in CallIds :
    /\ calls[c].pc = "returned"
    /\ calls[c].tool = "explore_facets"
    /\ calls[c].reply.kind = "response"
    /\ calls[c].reply.is_json
    /\ calls[c].ret.branch = "error"
    /\ StartsWith(calls[c].ret.result, "Error exploring facets: ")

\* C3: a call sends at most one request upstream; after a failed GET no
\* second request is sent and the call returns one error string.
C3_OneRequest ==
  \A c \in CallIds :
    /\ Len(calls[c].requests) <= 1
    /\ FetchFailed(calls[c]) =>
         /\ Len(calls[c].requests) = 1
         /\ calls[c].pc = "returned"
         /\ calls[c].ret.branch = "error"

C3_Witness ==
  \E c \in CallIds :
    /\ FetchFailed(calls[c])
    /\ calls[c].reply.kind = "request_error"
    /\ calls[c].reply.error = "timed out"
    /\ Len(calls[c].requests) = 1

\* an identifier that is None, or empty once its whitespace is stripped
Absent(v) ==
  \/ v.kind = "null"
  \/ v.kind = "str" /\ \A i \in 1..Len(v.val) : SubSeq(v.val, i, i) \in {" ", "\t", "\n"}

\* C4: search_by_project called with project_id and project_name both absent
\* returns the usage error and has sent no request.
C4_ProjectPrecondition ==
  \A c \in CallIds :
    (/\ calls[c].tool = "search_by_project"
     /\ calls[c].pc \notin {"idle", "rejected"}
     /\ Absent(calls[c].input.project_id)
     /\ Absent(calls[c].input.project_name)) =>
      /\ calls[c].pc = "returned"
      /\ calls[c].requests = <<>>
      /\ calls[c].ret.result = ProjectUsageError

\* the identifier given is whitespace only
C4_Witness ==
  \E c \in CallIds :
    /\ calls[c].tool = "search_by_project"
    /\ calls[c].pc = "returned"
    /\ calls[c].input.project_id.kind = "str"
    /\ Len(calls[c].input.project_id.val) > 0
    /\ Absent(calls[c].input.project_id)
    /\ Absent(calls[c].input.project_name)
    /\ calls[c].ret.result = ProjectUsageError

\* search_documents returned without an exception
SearchReturned(call) ==
  /\ call.pc = "returned"
  /\ call.tool = "search_documents"
  /\ call.ret.branch \in {"no_results", "assembled"}

\* C5 as claimed: search_documents returns the suggestions text whenever the
\* reply yields no document, and never an assembled block with an empty list.
C5_Original ==
  \A c \in CallIds :
    SearchReturned(calls[c]) =>
      /\ (IsInt(calls[c].ret.total, 0) \/ Len(calls[c].ret.docs_list.val) = 0)
           => calls[c].ret.result = SearchNoResults
      /\ calls[c].ret.branch = "assembled" => Len(calls[c].ret.docs_list.val) > 0

\* C5, amended: search_documents returns the suggestions text whenever the
\* parsed total is 0; an assembled block is returned only for a total that is
\* not 0, and then also when the parsed list is empty.
C5_ZeroTotal ==
  \A c \in CallIds :
    SearchReturned(calls[c]) =>
      /\ IsInt(calls[c].ret.total, 0) <=> calls[c].ret.branch = "no_results"
      /\ calls[c].ret.branch = "no_results" <=> calls[c].ret.result = SearchNoResults

\* a total of 0 in the reply, read by the Shape-B parser
C5_Witness ==
  \E c \in CallIds :
    /\ SearchReturned(calls[c])
    /\ response_parser = "parse_sse_response"
    /\ HasKey(calls[c].reply.body, "documents")
    /\ IsInt(Get(Item(calls[c].reply.body, "documents"), "numFound", None), 0)
    /\ calls[c].ret.result = SearchNoResults

\* get_document_details went through the parser and returned
DetailsReturned(call) ==
  /\ call.pc = "returned"
  /\ call.tool = "get_document_details"
  /\ call.ret.branch \in {"not_found", "assembled"}
  /\ call.ret.docs_list.kind = "list"

\* the record carries the identifier, under either key
HasIdentifier(doc, id) ==
  /\ doc.kind = "dict"
  /\ \/ IsStr(Get(doc, "id", None), id)
     \/ IsStr(Get(doc, "guid", None), id)

\* C6 as claimed: an identifier that no record of the parsed reply carries
\* gives the "not found" message.
C6_Original ==
  \A c \in CallIds :
    (/\ DetailsReturned(calls[c])
     /\ \A i \in DOMAIN calls[c].ret.docs_list.val :
          ~HasIdentifier(calls[c].ret.docs_list.val[i], calls[c].params.document_id.val))
    => calls[c].ret.result = DetailsNotFound(calls[c].params.document_id.val)

\* C6, amended: get_document_details returns the "not found" message exactly
\* when the parsed list is empty, whatever the total of the reply; a list that
\* is not empty has its first record rendered, whatever its identifier.
C6_EmptyListNotFound ==
  \A c \in CallIds :
    DetailsReturned(calls[c]) =>
      /\ Len(calls[c].ret.docs_list.val) = 0
           <=> calls[c].ret.result = DetailsNotFound(calls[c].params.document_id.val)
      /\ Len(calls[c].ret.docs_list.val) = 0 <=> calls[c].ret.branch = "not_found"

\* not found although the reply states a total of 57
C6_Witness ==
  \E c \in CallIds :
    /\ DetailsReturned(calls[c])
    /\ Len(calls[c].ret.docs_list.val) = 0
    /\ IsInt(calls[c].ret.total, 57)
    /\ calls[c].ret.result = DetailsNotFound(calls[c].params.document_id.val)

\* a Shape-A envelope: a top-level total and a documents mapping whose
\* entries, the facets entry apart, are records
IsShapeA(body) ==
  /\ body.kind = "dict"
  /\ HasKey(body, "total")
  /\ HasKey(body, "documents")
  /\ Item(body, "documents").kind = "dict"
  /\ \A i \in DOMAIN Item(body, "documents").val :
       \/ Item(body, "documents").val[i][1] = "facets"
       \/ Item(body, "documents").val[i][2].kind = "dict"

NotFacets(kv) == kv[1] # "facets"

\* C7: parse_stdio_response returns, for a Shape-A envelope, the entries of
\* documents whose key is not "facets", in the order of the mapping, and the
\* top-level total.
C7_StdioParse ==
  \A c \in CallIds :
    (/\ response_parser = "parse_stdio_response"
     /\ Parsed(calls[c])
     /\ IsShapeA(calls[c].reply.body)) =>
      LET entries == SelectSeq(Item(calls[c].reply.body, "documents").val, NotFacets)
          docs_list == calls[c].ret.docs_list
      IN /\ docs_list.kind = "list"
         /\ Len(docs_list.val) = Len(entries)
         /\ \A i \in DOMAIN entries : JsonEq(docs_list.val[i], entries[i][2])
         /\ JsonEq(calls[c].ret.total, Item(calls[c].reply.body, "total"))

\* two documents and the facets entry, total 2
C7_Witness ==
  \E c \in CallIds :
    /\ response_parser = "parse_stdio_response"
    /\ Parsed(calls[c])
    /\ IsShapeA(calls[c].reply.body)
    /\ Len(Item(calls[c].reply.body, "documents").val) = 3
    /\ HasKey(Item(calls[c].reply.body, "documents"), "facets")
    /\ Len(calls[c].ret.docs_list.val) = 2
    /\ IsInt(calls[c].ret.total, 2)

\* a Shape-B envelope: documents.docs is a list, documents.numFound an integer
IsShapeB(body) ==
  /\ body.kind = "dict"
  /\ HasKey(body, "documents")
  /\ Item(body, "documents").kind = "dict"
  /\ HasKey(Item(body, "documents"), "docs")
  /\ Item(Item(body, "documents"), "docs").kind = "list"
  /\ HasKey(Item(body, "documents"), "numFound")
  /\ Item(Item(body, "documents"), "numFound").kind = "int"

\* C8: parse_sse_response returns, for a Shape-B envelope, the list
\* documents.docs and the integer documents.numFound, each as it is.
C8_SseParse ==
  \A c \in CallIds :
    (/\ response_parser = "parse_sse_response"
     /\ Parsed(calls[c])
     /\ IsShapeB(calls[c].reply.body)) =>
      /\ JsonEq(calls[c].ret.docs_list, Item(Item(calls[c].reply.body, "documents"), "docs"))
      /\ JsonEq(calls[c].ret.total, Item(Item(calls[c].reply.body, "documents"), "numFound"))

\* two documents, numFound 57
C8_Witness ==
  \E c \in CallIds :
    /\ response_parser = "parse_sse_response"
    /\ Parsed(calls[c])
    /\ IsShapeB(calls[c].reply.body)
    /\ Len(calls[c].ret.docs_list.val) = 2
    /\ IsInt(calls[c].ret.total, 57)

\* the envelope has no documents collection, or an empty one
MissingOrEmpty(body) ==
  /\ body.kind = "dict"
  /\ \/ ~HasKey(body, "documents")
     \/ /\ Item(body, "documents").kind = "dict"
        /\ Len(Item(body, "documents").val) = 0

\* a call whose reply was a JSON body handed to the parser
ParserApplied(call) ==
  /\ call.pc = "returned"
  /\ call.tool \in {"search_documents", "get_document_details", "search_by_project"}
  /\ Len(call.requests) > 0
  /\ call.reply.kind = "response"
  /\ call.reply.status = 200
  /\ call.reply.is_json

\* C9 as claimed: each parser returns the empty list and total 0 for a
\* response whose document collection is missing or empty, and does not fail.
C9_Original ==
  \A c \in CallIds :
    (ParserApplied(calls[c]) /\ MissingOrEmpty(calls[c].reply.body)) =>
      /\ calls[c].ret.branch # "error"
      /\ calls[c].ret.docs_list.kind = "list"
      /\ Len(calls[c].ret.docs_list.val) = 0
      /\ IsInt(calls[c].ret.total, 0)

\* C9, amended: each parser returns the empty list for a response whose
\* document collection is missing or empty, and does not fail; the total is 0,
\* except that parse_stdio_response, and parse_default_response with it,
\* return the top-level total of an envelope that has one.
C9_MissingCollection ==
  \A c \in CallIds :
    (ParserApplied(calls[c]) /\ MissingOrEmpty(calls[c].reply.body)) =>
      /\ calls[c].ret.branch # "error"
      /\ calls[c].ret.docs_list.kind = "list"
      /\ Len(calls[c].ret.docs_list.val) = 0
      /\ IF response_parser # "parse_sse_response" /\ HasKey(calls[c].reply.body, "total")
         THEN JsonEq(calls[c].ret.total, Item(calls[c].reply.body, "total"))
         ELSE IsInt(calls[c].ret.total, 0)

\* an envelope without a documents key went through the Shape-A parser
C9_Witness ==
  \E c \in CallIds :
    /\ ParserApplied(calls[c])
    /\ response_parser = "parse_stdio_response"
    /\ ~HasKey(calls[c].reply.body, "documents")
    /\ Len(calls[c].ret.docs_list.val) = 0
    /\ IsInt(calls[c].ret.total, 0)

\* the keys format_document_json declares: <<key, list-typed, source keys>>
DeclaredKeys ==
  << <<"id", FALSE, {"id", "guid"}>>,
     <<"title", FALSE, {"display_title", "repnme"}>>,
     <<"report_number", FALSE, {"repnb"}>>,
     <<"document_type", FALSE, {"docty"}>>,
     <<"document_date", FALSE, {"docdt"}>>,
     <<"countries", TRUE, {"count"}>>,
     <<"languages", TRUE, {"lang"}>>,
     <<"abstract", FALSE, {"abstracts"}>>,
     <<"major_themes", TRUE, {"majtheme"}>>,
     <<"topics", TRUE, {"topic"}>>,
     <<"pdf_url", FALSE, {"pdfurl"}>>,
     <<"url", FALSE, {"url"}>>,
     <<"project_id", FALSE, {"proid"}>>,
     <<"project_name", FALSE, {"projn"}>>,
     <<"sectors", TRUE, {"sectr_exact"}>>,
     <<"keywords", TRUE, {"keywd"}>>,
     <<"authors", TRUE, {"authr"}>> >>

\* record is the structured form of doc, with every declared key
IsTotalRecord(doc, record) ==
  /\ record.ok
  /\ record.val.kind = "dict"
  /\ Len(record.val.val) = Len(DeclaredKeys)
  /\ \A i \in DOMAIN DeclaredKeys :
       /\ record.val.val[i][1] = DeclaredKeys[i][1]
       /\ (\A k \in DeclaredKeys[i][3] : ~HasKey(doc, k)) =>
            IF DeclaredKeys[i][2]
            THEN record.val.val[i][2].kind = "list" /\ Len(record.val.val[i][2].val) = 0
            ELSE record.val.val[i][2].kind = "null"

\* a call that rendered its documents in structured mode
StructuredDocs(call) ==
  /\ call.pc = "returned"
  /\ call.tool \in {"search_documents", "get_document_details", "search_by_project"}
  /\ call.params.response_format = "json"
  /\ call.ret.branch = "assembled"

\* C10: format_document_json yields, for every document record, every
\* declared key, with the empty list for an absent list-typed field and null
\* for an absent scalar field.
C10_StructuredRecordTotal ==
  \A c \in CallIds :
    StructuredDocs(calls[c]) =>
      \A i \in DOMAIN calls[c].ret.docs_list.val :
        IsTotalRecord(calls[c].ret.docs_list.val[i],
                      format_document_json(calls[c].ret.docs_list.val[i]))

\* a record with no recognised field was rendered
C10_Witness ==
  \E c \in CallIds :
    /\ StructuredDocs(calls[c])
    /\ \E i \in DOMAIN calls[c].ret.docs_list.val :
         /\ \A j \in DOMAIN DeclaredKeys : \A k \in DeclaredKeys[j][3] :
              ~HasKey(calls[c].ret.docs_list.val[i], k)
         /\ IsTotalRecord(calls[c].ret.docs_list.val[i],
                          format_document_json(calls[c].ret.docs_list.val[i]))

\* explore_facets rendered the facets of its reply
FacetsAssembled(call) ==
  /\ call.pc = "returned"
  /\ call.tool = "explore_facets"
  /\ call.ret.branch = "assembled"

\* the facet mapping of the reply of an explore_facets call
FacetData(call) == Get(call.reply.body, "facets", JDict(<<>>))

\* a flat alternating sequence [value, count, value, count, ...]
IsFlatFacet(v) ==
  /\ v.kind = "list"
  /\ Len(v.val) % 2 = 0
  /\ \A i \in DOMAIN v.val : v.val[i].kind = IF i % 2 = 1 THEN "str" ELSE "int"

\* the requested facet names of call that the reply answers with a flat sequence
FlatFacets(call) ==
  {i \in DOMAIN call.params.facets.val :
     /\ HasKey(FacetData(call), call.params.facets.val[i].val)
     /\ IsFlatFacet(Item(FacetData(call), call.params.facets.val[i].val))}

\* the number of positions of the sequence of pairs seq that hold pair
Occurrences(seq, pair) == Cardinality({j \in DOMAIN seq : seq[j] = pair})

\* listed holds the consecutive pairs of the flat sequence flat, each as often
\* as flat holds it, in non-increasing order of count
IsSortedPairing(flat, listed) ==
  /\ Len(listed) = Len(flat) \div 2
  /\ \A k \in DOMAIN listed :
       /\ listed[k][1].kind = "str"
       /\ listed[k][2].kind = "int"
       /\ Occurrences(listed, listed[k])
            = Cardinality({j \in 1..(Len(flat) \div 2) :
                             <<flat[2 * j - 1], flat[2 * j]>> = listed[k]})
  /\ \A k \in 1..(Len(listed) - 1) : listed[k][2].val >= listed[k + 1][2].val

\* the lines of a text section for the pairs listed, in their order
RECURSIVE PairLines(_)
PairLines(listed) ==
  IF Len(listed) = 0 THEN ""
  ELSE IF Len(listed) = 1
  THEN "- **" \o listed[1][1].val \o "**: " \o CommaStr(listed[1][2].val) \o " documents\n"
  ELSE PairLines(SubSeq(listed, 1, Len(listed) \div 2))
       \o PairLines(SubSeq(listed, Len(listed) \div 2 + 1, Len(listed)))

\* the <<value, count>> pairs of the entries of a structured facet list
EntryPairs(entries) ==
  [k \in DOMAIN entries.val |->
     <<Item(entries.val[k], "value"), Item(entries.val[k], "count")>>]

\* the result of explore_facets is the sections (text) or the object
\* (structured) the handler builds for its reply
FacetsOutput(call) ==
  IF call.params.response_format = "markdown"
  THEN call.ret.result
         = "# World Bank Document Facets\n\n"
           \o (IF Truthy(call.params.query)
               THEN "**Filtered by query:** " \o call.params.query.val \o "\n\n" ELSE "")
           \o FacetsMarkdown(FacetData(call), call.params.facets.val).val
  ELSE call.ret.result = json_dumps(FacetsResultObject(call.params, FacetData(call)).val)

\* C11: for every requested facet that the reply answers with a flat
\* alternating sequence, explore_facets pairs consecutive elements and lists
\* the pairs in non-increasing order of count: in text mode the lines of the
\* facet's section, in structured mode the entries of the facet's list.
C11_FacetPairsSorted ==
  \A c \in CallIds :
    FacetsAssembled(calls[c]) =>
      /\ FacetsOutput(calls[c])
      /\ \A i \in FlatFacets(calls[c]) :
           LET name == calls[c].params.facets.val[i].val
               flat == Item(FacetData(calls[c]), name).val
               n == Len(flat) \div 2
               entries == FacetJson(FacetData(calls[c]), name)
               section == FacetMarkdown(FacetData(calls[c]), name)
           IN /\ entries.ok
              /\ IsSortedPairing(flat, EntryPairs(entries.val))
              /\ n <= FacetDisplayLimit =>
                   section.val = "## " \o name \o "\n\nTotal unique values: "
                                 \o IntStr(n) \o "\n\n"
                                 \o PairLines(EntryPairs(entries.val)) \o "\n"

\* ["A", 3, "B", 7, "C", 3] was listed as B, A, C
C11_Witness ==
  \E c \in CallIds :
    /\ FacetsAssembled(calls[c])
    /\ calls[c].params.response_format = "markdown"
    /\ \E i \in FlatFacets(calls[c]) :
         LET name == calls[c].params.facets.val[i].val
             listed == EntryPairs(FacetJson(FacetData(calls[c]), name).val)
         IN /\ Len(listed) = 3
            /\ listed[1][1].val = "B" /\ listed[1][2].val = 7
            /\ listed[2][1].val = "A" /\ listed[3][1].val = "C"

\* the multi-value filters of search_documents: <<input field, request key>>
MultiValueFilters ==
  << <<"countries", "count_exact">>, <<"document_types", "docty_exact">>,
     <<"languages", "lang_exact">> >>

\* the elements of the list xs in their order, with "^" between neighbours
RECURSIVE CaretSeparated(_)
CaretSeparated(xs) ==
  IF Len(xs) = 0 THEN ""
  ELSE IF Len(xs) = 1 THEN xs[1].val
  ELSE xs[1].val \o "^" \o CaretSeparated(Tail(xs))

\* the call has built its request
Requested(call) == Len(call.requests) = 1

\* C12: the request of search_documents carries, for each multi-value filter
\* whose validated list is not empty, one key whose value is the elements of
\* the list in their order joined by "^"; it carries no key for a filter
\* whose list is empty or absent, and no request of another tool carries one.
C12_FiltersJoined ==
  \A c \in CallIds :
    Requested(calls[c]) =>
      \A f \in DOMAIN MultiValueFilters :
        LET field == MultiValueFilters[f][1]
            key == MultiValueFilters[f][2]
            given == IF calls[c].tool = "search_documents"
                     THEN calls[c].params[field] ELSE None
        IN IF given.kind = "list" /\ Len(given.val) > 0
           THEN /\ HasKey(calls[c].requests[1], key)
                /\ IsStr(Item(calls[c].requests[1], key), CaretSeparated(given.val))
           ELSE ~HasKey(calls[c].requests[1], key)

\* countries ["Kenya", "Brazil"] gave count_exact = "Kenya^Brazil"
C12_Witness ==
  \E c \in CallIds :
    /\ Requested(calls[c])
    /\ calls[c].tool = "search_documents"
    /\ calls[c].params.countries.kind = "list"
    /\ Len(calls[c].params.countries.val) = 2
    /\ IsStr(Get(calls[c].requests[1], "count_exact", None), "Kenya^Brazil")
    /\ ~HasKey(calls[c].requests[1], "docty_exact")

\* the string t occurs in the string s
Contains(s, t) == \E i \in 1..(Len(s) - Len(t) + 1) : SubSeq(s, i, i + Len(t) - 1) = t

\* explore_facets returned on a reply whose body is a JSON object, without an
\* exception
FacetsReturned(call) ==
  /\ call.pc = "returned"
  /\ call.tool = "explore_facets"
  /\ call.ret.branch \in {"assembled", "no_facet_data"}

\* the output names the facet with the marker of its mode: the section
\* "*No data available*" in text mode, the empty list in structured mode
NoDataMarked(call, name) ==
  IF call.params.response_format = "markdown"
  THEN Contains(call.ret.result, "## " \o name \o "\n\n*No data available*\n\n")
  ELSE Contains(call.ret.result, "\"" \o name \o "\": []")

\* the requested facet names of call that the facet mapping of the reply lacks
AbsentFacets(call) ==
  {i \in DOMAIN call.params.facets.val :
     ~HasKey(FacetData(call), call.params.facets.val[i].val)}

\* C13 as claimed: for every reply, each requested facet name that the facet
\* mapping of the reply lacks is in the output under its name with the
\* "no data" marker.
C13_Original ==
  \A c \in CallIds :
    FacetsReturned(calls[c]) =>
      \A i \in AbsentFacets(calls[c]) :
        NoDataMarked(calls[c], calls[c].params.facets.val[i].val)

\* C13, amended: when the facet mapping of the reply is not empty, each
\* requested facet name it lacks is in the output under its name with the
\* "no data" marker of the mode, and every requested name is in the output;
\* when the facet mapping is missing or empty the fixed "No facet data
\* available" message is returned, in which no requested facet is marked.
C13_AbsentFacetMarked ==
  \A c \in CallIds :
    FacetsReturned(calls[c]) =>
      /\ calls[c].ret.branch = "no_facet_data" <=> Len(FacetData(calls[c]).val) = 0
      /\ calls[c].ret.branch = "no_facet_data" =>
           /\ calls[c].ret.result = NoFacetData
           /\ \A i \in AbsentFacets(calls[c]) :
                ~NoDataMarked(calls[c], calls[c].params.facets.val[i].val)
      /\ calls[c].ret.branch = "assembled" =>
           /\ FacetsOutput(calls[c])
           /\ \A i \in AbsentFacets(calls[c]) :
                NoDataMarked(calls[c], calls[c].params.facets.val[i].val)
           /\ \A i \in DOMAIN calls[c].params.facets.val :
                Contains(calls[c].ret.result,
                         IF calls[c].params.response_format = "markdown"
                         THEN "## " \o calls[c].params.facets.val[i].val \o "\n\n"
                         ELSE "\"" \o calls[c].params.facets.val[i].val \o "\": ")

\* topic_exact was requested in text mode, the reply holds other facets only
C13_Witness ==
  \E c \in CallIds :
    /\ FacetsReturned(calls[c])
    /\ calls[c].ret.branch = "assembled"
    /\ calls[c].params.response_format = "markdown"
    /\ \E i \in AbsentFacets(calls[c]) : calls[c].params.facets.val[i].val = "topic_exact"
    /\ Contains(calls[c].ret.result, "## topic_exact\n\n*No data available*\n\n")

\* the first n elements of seq, or all of them if seq has fewer
FirstN(seq, n) == SubSeq(seq, 1, IF Len(seq) < n THEN Len(seq) ELSE n)

\* the text section of a facet for its sorted pairs listed: the heading, the
\* number of pairs, at most 50 lines, and the notice if there are more than 50
CappedSection(name, listed) ==
  "## " \o name \o "\n\nTotal unique values: " \o IntStr(Len(listed)) \o "\n\n"
  \o PairLines(FirstN(listed, 50))
  \o (IF Len(listed) > 50
      THEN "\n*Showing top 50 of " \o IntStr(Len(listed)) \o " total values*\n" ELSE "")
  \o "\n"

\* C14: for a requested facet with a flat sequence, explore_facets in text
\* mode lists the 50 pairs of highest count, or all pairs if there are at
\* most 50, and adds the "Showing top 50 of N" notice exactly when the facet
\* has more than 50 pairs; in structured mode the facet's list holds all
\* pairs, sorted.
C14_TextCappedAtFifty ==
  \A c \in CallIds :
    FacetsAssembled(calls[c]) =>
      \A i \in FlatFacets(calls[c]) :
        LET name == calls[c].params.facets.val[i].val
            flat == Item(FacetData(calls[c]), name).val
            entries == FacetJson(FacetData(calls[c]), name).val
            listed == EntryPairs(entries)
            notice == "\n*Showing top 50 of " \o IntStr(Len(flat) \div 2) \o " total values*\n"
        IN /\ IsSortedPairing(flat, listed)
           /\ IF calls[c].params.response_format = "markdown"
              THEN /\ Contains(calls[c].ret.result, CappedSection(name, listed))
                   /\ Contains(calls[c].ret.result, notice) <=> Len(flat) \div 2 > 50
              ELSE /\ calls[c].ret.result
                        = json_dumps(FacetsResultObject(calls[c].params,
                                                        FacetData(calls[c])).val)
                   /\ JsonEq(Item(Item(FacetsResultObject(calls[c].params,
                                                          FacetData(calls[c])).val,
                                       "facets"), name),
                             entries)
                   /\ Len(entries.val) = Len(flat) \div 2

\* a facet of 51 pairs was listed in text mode with the notice
C14_Witness ==
  \E c \in CallIds :
    /\ FacetsAssembled(calls[c])
    /\ calls[c].params.response_format = "markdown"
    /\ \E i \in FlatFacets(calls[c]) :
         /\ Len(Item(FacetData(calls[c]), calls[c].params.facets.val[i].val).val) = 102
         /\ Contains(calls[c].ret.result, "\n*Showing top 50 of 51 total values*\n")

\* search_documents or search_by_project assembled a page in structured mode
StructuredPage(call) ==
  /\ Assembled(call)
  /\ call.params.response_format = "json"

\* the object the handler of call serializes
ResultObject(call) ==
  IF call.tool = "search_documents"
  THEN SearchResultObject(call.params, call.ret.docs_list, call.ret.total).val
  ELSE ProjectResultObject(call.params, call.ret.docs_list, call.ret.total).val

\* the string returned is the serialized object, cut at the ceiling
IsSerialized(call, object) ==
  IF Len(json_dumps(object)) <= 25000
  THEN call.ret.result = json_dumps(object)
  ELSE SubSeq(call.ret.result, 1, 25000) = SubSeq(json_dumps(object), 1, 25000)

\* offset + number of returned documents
PageEnd(call) == call.params.offset.val + Len(call.ret.docs_list.val)

\* C15 as claimed: has_more is true exactly when offset + number of returned
\* documents < total, and the object has the key next_offset only when
\* has_more is true, its value then being offset + number of documents.
C15_Original ==
  \A c \in CallIds :
    StructuredPage(calls[c]) =>
      LET object == ResultObject(calls[c])
      IN /\ IsSerialized(calls[c], object)
         /\ Item(object, "has_more").val <=> PageEnd(calls[c]) < calls[c].ret.total.val
         /\ HasKey(object, "next_offset") <=> Item(object, "has_more").val
         /\ Item(object, "has_more").val => IsInt(Item(object, "next_offset"), PageEnd(calls[c]))

\* C15, amended: has_more is true exactly when offset + number of returned
\* documents < total; the object always has the key next_offset, whose value
\* is offset + number of returned documents when has_more is true and null
\* when it is false.
C15_NextOffsetNull ==
  \A c \in CallIds :
    StructuredPage(calls[c]) =>
      LET object == ResultObject(calls[c])
      IN /\ IsSerialized(calls[c], object)
         /\ Item(object, "has_more").kind = "bool"
         /\ Item(object, "has_more").val <=> PageEnd(calls[c]) < calls[c].ret.total.val
         /\ HasKey(object, "next_offset")
         /\ IF Item(object, "has_more").val
            THEN IsInt(Item(object, "next_offset"), PageEnd(calls[c]))
            ELSE Item(object, "next_offset").kind = "null"

\* the last page: offset 56, one document, total 57
C15_Witness ==
  \E c \in CallIds :
    /\ StructuredPage(calls[c])
    /\ calls[c].params.offset.val = 56
    /\ Len(calls[c].ret.docs_list.val) = 1
    /\ IsInt(calls[c].ret.total, 57)
    /\ Contains(calls[c].ret.result, "\"has_more\": false,\n  \"next_offset\": null")

\* what the parser named parser returns for response
ParserResult(parser, response) ==
  CASE parser = "parse_stdio_response" -> parse_stdio_response(response)
    [] parser = "parse_sse_response" -> parse_sse_response(response)
    [] parser = "parse_default_response" -> parse_default_response(response)

\* the list and the total of the returned call are those the server's parser
\* yields for the body of its reply
ParsedByServerParser(call) ==
  /\ ParserResult(response_parser, call.reply.body).ok
  /\ JsonEq(call.ret.docs_list, ParserResult(response_parser, call.reply.body).val[1])
  /\ JsonEq(call.ret.total, ParserResult(response_parser, call.reply.body).val[2])

\* C16: no step of a tool call changes the parser of the server, and every
\* call of search_documents, get_document_details and search_by_project that
\* returns past the parser has parsed its reply with the parser the server
\* was constructed with.
C16_ParserFixed ==
  /\ [][response_parser' = response_parser]_vars
  /\ [](\A c \in CallIds : Parsed(calls[c]) => ParsedByServerParser(calls[c]))

\* a Shape-B reply of two records went through the Shape-A parser of the
\* server, which finds no record in it
C16_Witness ==
  \E c \in CallIds :
    /\ response_parser = "parse_stdio_response"
    /\ Parsed(calls[c])
    /\ IsShapeB(calls[c].reply.body)
    /\ Len(Item(Item(calls[c].reply.body, "documents"), "docs").val) = 2
    /\ Len(calls[c].ret.docs_list.val) = 0

\* the kinds of string a handler returns
ReturnKinds ==
  {"assembled", "no_results", "not_found", "no_facet_data", "usage_error", "error"}

\* the call returned the error string of a GET that failed at the network layer
NetworkErrorReturned(call) ==
  /\ call.pc = "returned"
  /\ call.ret.branch = "error"
  /\ call.ret.result
       = ErrorPrefix(call.tool) \o "Network error connecting to World Bank API: "
         \o call.reply.error \o ". Check your internet connection and try again."

\* C17: a call that awaits its GET eventually returns; what it returns is one
\* string, an assembled result, a guidance message or an error string, and
\* stays the same until the runtime takes it; after a timeout or another
\* failure at the network layer it is the tool's error string with the
\* network message and nothing else.
C17_EventuallyReturns ==
  /\ \A c \in CallIds : (calls[c].pc = "awaiting") ~> (calls[c].pc = "returned")
  /\ [](\A c \in CallIds :
          /\ calls[c].pc \in {"idle", "awaiting", "returned", "rejected"}
          /\ calls[c].pc = "returned" => calls[c].ret.branch \in ReturnKinds
          /\ (calls[c].pc = "returned" /\ Len(calls[c].requests) > 0
              /\ calls[c].reply.kind = "request_error") => NetworkErrorReturned(calls[c]))
  /\ [][\A c \in CallIds : calls[c].pc = "returned" => calls'[c].pc = "idle"]_vars

\* get_document_details returned the error string of a GET that timed out
C17_Witness ==
  \E c \in CallIds :
    /\ calls[c].tool = "get_document_details"
    /\ calls[c].reply.kind = "request_error"
    /\ calls[c].reply.error = "timed out"
    /\ NetworkErrorReturned(calls[c])

\* the tools that page through results
PagedTools == {"search_documents", "search_by_project"}

\* the raw limit or offset is outside 1..100 or below 0
OutOfBounds(raw) == raw.limit.val < 1 \/ raw.limit.val > 100 \/ raw.offset.val < 0

\* the request carries rows and os, integers equal to limit and offset
PagedAs(request, limit, offset) ==
  /\ HasKey(request, "rows") /\ HasKey(request, "os")
  /\ Item(request, "rows").kind = "int" /\ Item(request, "os").kind = "int"
  /\ limit.kind = "int" /\ Item(request, "rows").val = limit.val
  /\ offset.kind = "int" /\ Item(request, "os").val = offset.val

\* C18: every request of search_documents or search_by_project has rows in
\* 1..100 and os >= 0, the limit and the offset of the validated input; a call
\* whose raw limit or offset is out of bounds is rejected and has sent no
\* request.
C18_PageBounds ==
  \A c \in CallIds :
    calls[c].tool \in PagedTools =>
      /\ \A k \in DOMAIN calls[c].requests :
           /\ PagedAs(calls[c].requests[k], calls[c].params.limit, calls[c].params.offset)
           /\ Item(calls[c].requests[k], "rows").val \in 1..100
           /\ Item(calls[c].requests[k], "os").val >= 0
      /\ OutOfBounds(calls[c].input) =>
           /\ calls[c].pc = "rejected"
           /\ Len(calls[c].requests) = 0

\* search_by_project has sent its request for the page at offset 56
C18_Witness ==
  \E c \in CallIds :
    /\ calls[c].tool = "search_by_project"
    /\ calls[c].pc = "returned"
    /\ Len(calls[c].requests) = 1
    /\ PagedAs(calls[c].requests[1], JInt(20), JInt(56))

\* what the handler of call returns for the call's own input and reply
OwnReturn(call) == Resume(call, response_parser, call.reply)

\* C19: with two invocations in flight, a step changes one invocation and
\* leaves the other and the parser as they were, and what an invocation
\* returned is what its handler returns for its own input, the server's parser
\* and its own reply, whatever the other invocation did in between.
C19_Independent ==
  /\ [](\A c \in DOMAIN calls :
          LET Same(ret, own) == ret.branch = own.branch /\ ret.result = own.result
          IN (calls[c].pc = "returned" /\ Len(calls[c].requests) > 0) =>
                Same(calls[c].ret, OwnReturn(calls[c])))
  /\ [][/\ response_parser' = response_parser
        /\ \A c, d \in DOMAIN calls :
             (c # d /\ calls'[c].pc # calls[c].pc) =>
                /\ calls'[d].pc = calls[d].pc
                /\ calls'[d].tool = calls[d].tool
                /\ Len(calls'[d].requests) = Len(calls[d].requests)
                /\ calls'[d].reply.kind = calls[d].reply.kind
                /\ calls'[d] = calls[d]]_vars

\* two invocations of search_documents with the same input were in flight
\* together and returned different strings, each for its own reply
C19_Witness ==
  \E c, d \in DOMAIN calls :
    /\ c # d
    /\ calls[c].pc = "returned" /\ calls[d].pc = "returned"
    /\ calls[c].tool = "search_documents" /\ calls[d].tool = "search_documents"
    /\ calls[c].reply.kind = "response" /\ calls[c].ret.branch = "assembled"
    /\ calls[d].reply.kind = "request_error" /\ calls[d].ret.branch = "error"
    /\ calls[c].ret.result # calls[d].ret.result

\* the keys of a request, in the order of the dict
KeysOf(request) == [i \in DOMAIN request.val |-> request.val[i][1]]

UniqueKeys(request) ==
  \A i, j \in DOMAIN request.val : request.val[i][1] = request.val[j][1] => i = j

IntItem(request, key, n) ==
  HasKey(request, key) /\ Item(request, key).kind = "int" /\ Item(request, key).val = n

StrItem(request, key, text) ==
  HasKey(request, key) /\ Item(request, key).kind = "str" /\ Item(request, key).val = text

\* the request of explore_facets: rows is the 0 of the keyword argument, the
\* other keys are as computed from query and facets
FacetsRequest(request, params) ==
  /\ IntItem(request, "rows", 0)
  /\ IntItem(request, "os", 0)
  /\ StrItem(request, "fct", PyJoin(",", params.facets).val)
  /\ IF Truthy(params.query)
     THEN /\ StrItem(request, "qterm", params.query.val)
          /\ KeysOf(request) = <<"format", "rows", "os", "qterm", "fct">>
     ELSE KeysOf(request) = <<"format", "rows", "os", "fct">>

\* the request of get_document_details: limit=1 and the ad-hoc key id
DetailsRequest(request, params) ==
  /\ IntItem(request, "rows", 1)
  /\ IntItem(request, "os", 0)
  /\ StrItem(request, "id", params.document_id.val)
  /\ KeysOf(request) = <<"format", "rows", "os", "id">>

\* C20: every request has each key once, begins with format = "json", rows
\* and os, and rows and os are the limit and the offset passed; the rows=0
\* that explore_facets passes as an ad-hoc pair replaces the default 20 and
\* leaves os, qterm and fct as computed, and the id that get_document_details
\* passes is added after the computed keys.
C20_QueryParams ==
  \A c \in CallIds :
    \A k \in DOMAIN calls[c].requests :
      LET Built(request, params) ==
            /\ UniqueKeys(request)
            /\ Len(request.val) >= 3
            /\ SubSeq(KeysOf(request), 1, 3) = <<"format", "rows", "os">>
            /\ StrItem(request, "format", "json")
            /\ calls[c].tool = "explore_facets" => FacetsRequest(request, params)
            /\ calls[c].tool = "get_document_details" => DetailsRequest(request, params)
            /\ calls[c].tool \in PagedTools =>
                 /\ IntItem(request, "rows", params.limit.val)
                 /\ IntItem(request, "os", params.offset.val)
      IN Built(calls[c].requests[k], calls[c].params)

\* explore_facets has sent rows = 0 with the query and the two facets
C20_Witness ==
  \E c \in CallIds :
    /\ calls[c].tool = "explore_facets"
    /\ Len(calls[c].requests) = 1
    /\ IntItem(calls[c].requests[1], "rows", 0)
    /\ StrItem(calls[c].requests[1], "qterm", "water")
    /\ StrItem(calls[c].requests[1], "fct", "count_exact,lang_exact")

\* the keys build_query_params writes for a search term, a filter, a sort or
\* a facet request (core.py lines 321-345)
SearchKeys ==
  {"qterm", "count_exact", "docty_exact", "lang_exact", "strdate", "enddate",
   "srt", "order", "fct"}

\* C21: get_document_details sends at most one request, and that request has
\* rows = 1, os = 0 and id = the document identifier of the validated input,
\* and none of the keys of a search term, a filter, a sort or a facet.
C21_DetailsRequest ==
  \A c \in CallIds :
    calls[c].tool = "get_document_details" =>
      /\ Len(calls[c].requests) <= 1
      /\ calls[c].pc \in {"awaiting", "returned"} => Len(calls[c].requests) = 1
      /\ \A k \in DOMAIN calls[c].requests :
           LET OneDocument(request, document_id) ==
                 /\ IntItem(request, "rows", 1)
                 /\ IntItem(request, "os", 0)
                 /\ document_id.kind = "str"
                 /\ StrItem(request, "id", document_id.val)
                 /\ \A key \in SearchKeys : ~HasKey(request, key)
           IN OneDocument(calls[c].requests[k], calls[c].params.document_id)

\* get_document_details was called with " G2 " and has asked for id = "G2"
C21_Witness ==
  \E c \in CallIds :
    /\ calls[c].tool = "get_document_details"
    /\ calls[c].pc = "returned"
    /\ calls[c].input.document_id.val = " G2 "
    /\ Len(calls[c].requests) = 1
    /\ StrItem(calls[c].requests[1], "id", "G2")
    /\ IntItem(calls[c].requests[1], "rows", 1)

\* search_documents or search_by_project returned an assembled page as text
TextPage(call) == Assembled(call) /\ call.params.response_format = "markdown"

\* a string, or a list of strings
IsListOrString(v) ==
  \/ v.kind = "str"
  \/ v.kind = "list" /\ \A i \in DOMAIN v.val : v.val[i].kind = "str"

\* the elements of a list joined by a comma, a string unchanged
CommaJoinedOrUnchanged(v) ==
  IF v.kind = "list" THEN JoinStrings(", ", [i \in DOMAIN v.val |-> v.val[i].val])
  ELSE v.val

\* the fields that arrive as a list or as a string, and their labels
ListOrStringFields ==
  << <<"count", "**Countries:** ">>, <<"lang", "**Languages:** ">>,
     <<"majtheme", "**Major Themes:** ">> >>

\* the block of doc has the line of the field with the value as claimed
FieldLineAsClaimed(doc, field) ==
  LET Line(v, block) ==
        (Truthy(v) /\ IsListOrString(v)) =>
           /\ block.ok
           /\ Contains(block.val, field[2] \o CommaJoinedOrUnchanged(v) \o "\n")
  IN Line(Get(doc, field[1], None), format_document_markdown(doc))

\* C22 as claimed: in the text block of every document of a page, countries,
\* languages and major themes are each the elements joined by a comma when
\* the field is a list, and the unchanged string when it is a string.
C22_Original ==
  \A c \in CallIds :
    TextPage(calls[c]) =>
      \A i \in DOMAIN calls[c].ret.docs_list.val :
        calls[c].ret.docs_list.val[i].kind = "dict" =>
          \A k \in DOMAIN ListOrStringFields :
            FieldLineAsClaimed(calls[c].ret.docs_list.val[i], ListOrStringFields[k])

\* the page shows the country "Kenya" of a record, sent as a string, as its
\* characters joined by a comma
C22_Divergence ==
  \E c \in CallIds :
    /\ TextPage(calls[c])
    /\ \E i \in DOMAIN calls[c].ret.docs_list.val :
         /\ calls[c].ret.docs_list.val[i].kind = "dict"
         /\ IsStr(Get(calls[c].ret.docs_list.val[i], "count", None), "Kenya")
    /\ Contains(calls[c].ret.result, "**Countries:** K, e, n, y, a\n")
    /\ Contains(calls[c].ret.result, "**Major Themes:** Water\n")

\* the records the server's parser finds in the reply of the call
ParsedRecords(call) ==
  LET Records(parsed) ==
        IF parsed.ok /\ parsed.val[1].kind = "list" THEN parsed.val[1].val ELSE <<>>
  IN Records(ParserResult(response_parser, call.reply.body))

\* C23 as claimed: for every document record the parser finds in a reply,
\* format_document_markdown and format_document_json both return a result;
\* neither fails.
C23_Original ==
  \A c \in CallIds :
    ParserApplied(calls[c]) =>
      LET Rendered(records) ==
            \A i \in DOMAIN records :
              records[i].kind = "dict" =>
                /\ format_document_markdown(records[i]).ok
                /\ format_document_json(records[i]).ok
      IN Rendered(ParsedRecords(calls[c]))

\* search_documents in text mode ended in the error outcome on a page that
\* holds the record whose country list is [404]
C23_Divergence ==
  \E c \in CallIds :
    /\ ParserApplied(calls[c])
    /\ calls[c].tool = "search_documents"
    /\ calls[c].params.response_format = "markdown"
    /\ \E i \in DOMAIN ParsedRecords(calls[c]) :
         /\ ParsedRecords(calls[c])[i].kind = "dict"
         /\ IsStr(Get(ParsedRecords(calls[c])[i], "id", None), "D4")
    /\ calls[c].ret.branch = "error"
    /\ calls[c].ret.result
         = SearchErrorPrefix \o "sequence item 0: expected str instance, int found"

\* the text the handler of an assembled page had before truncate_if_needed
AssembledContent(call) ==
  CASE call.tool = "search_documents" /\ call.params.response_format = "markdown" ->
         SearchMarkdown(call.params, call.ret.docs_list, call.ret.total).val
    [] call.tool = "search_documents" /\ call.params.response_format = "json" ->
         json_dumps(SearchResultObject(call.params, call.ret.docs_list, call.ret.total).val)
    [] call.tool = "search_by_project" /\ call.params.response_format = "markdown" ->
         ProjectMarkdown(call.params, call.ret.docs_list, call.ret.total).val
    [] OTHER ->
         json_dumps(ProjectResultObject(call.params, call.ret.docs_list, call.ret.total).val)

\* the truncation notice for a document list of n items
NoticeOfItems(n) ==
  "\n\n**TRUNCATED**: Response exceeded 25000 characters.\n"
  \o "Showing partial results. Original had " \o ToString(n) \o " items.\n"
  \o "To see more results:\n"
  \o "- Use the 'offset' parameter for pagination\n"
  \o "- Add more specific filters (countries, document_types, dates)\n"
  \o "- Reduce the 'limit' parameter\n"

\* result is content if content has at most 25,000 characters, and the first
\* 25,000 characters of content followed by the notice for n items otherwise
CutAtCeiling(result, content, n) ==
  IF Len(content) <= 25000 THEN result = content
  ELSE result = SubSeq(content, 1, 25000) \o NoticeOfItems(n)

\* C24: the string of an assembled page, in text and in structured mode, is
\* the assembled content unchanged when that has at most 25,000 characters,
\* and otherwise its first 25,000 characters followed by the truncation
\* notice, which states the number of items of the parsed document list.
C24_HardCut ==
  \A c \in CallIds :
    Assembled(calls[c]) =>
      CutAtCeiling(calls[c].ret.result, AssembledContent(calls[c]),
                   Len(calls[c].ret.docs_list.val))

\* search_by_project cut the JSON text of a page of two records
C24_Witness ==
  \E c \in CallIds :
    /\ Assembled(calls[c])
    /\ calls[c].tool = "search_by_project"
    /\ calls[c].params.response_format = "json"
    /\ Len(calls[c].ret.docs_list.val) = 2
    /\ Len(AssembledContent(calls[c])) > 25000
    /\ Len(calls[c].ret.result) = 25000 + Len(NoticeOfItems(2))
    /\ SubSeq(calls[c].ret.result, 25001, Len(calls[c].ret.result)) = NoticeOfItems(2)

\* the documents collection of a reply is a mapping, or the reply has none
CollectionIsMapping(response) ==
  response.kind = "dict" /\ Get(response, "documents", JDict(<<>>)).kind = "dict"

\* the parser the fallback strategy is claimed to take for the reply
ParserByDocsKey(response) ==
  IF HasKey(Get(response, "documents", JDict(<<>>)), "docs")
  THEN parse_sse_response(response)
  ELSE parse_stdio_response(response)

\* two parser results are the same pair, or the same failure
SameParse(a, b) ==
  /\ a.ok = b.ok
  /\ a.error = b.error
  /\ a.ok => JsonEq(a.val[1], b.val[1]) /\ JsonEq(a.val[2], b.val[2])

\* C25: for a reply whose documents collection is a mapping or is missing,
\* parse_default_response gives what parse_sse_response gives when the
\* collection has the key "docs" and what parse_stdio_response gives
\* otherwise; a call of a server built with it that returns past the parser
\* has that list and that total.
C25_DefaultDispatch ==
  \A c \in CallIds :
    (ParserApplied(calls[c]) /\ CollectionIsMapping(calls[c].reply.body)) =>
      LET Dispatched(chosen) ==
            /\ SameParse(parse_default_response(calls[c].reply.body), chosen)
            /\ (response_parser = "parse_default_response" /\ Parsed(calls[c])) =>
                 /\ chosen.ok
                 /\ JsonEq(calls[c].ret.docs_list, chosen.val[1])
                 /\ JsonEq(calls[c].ret.total, chosen.val[2])
      IN Dispatched(ParserByDocsKey(calls[c].reply.body))

\* a server built with parse_default_response read both records and the
\* count 57 of a Shape-B reply
C25_Witness ==
  \E c \in CallIds :
    /\ response_parser = "parse_default_response"
    /\ Parsed(calls[c])
    /\ Len(calls[c].requests) > 0
    /\ HasKey(Get(calls[c].reply.body, "documents", JDict(<<>>)), "docs")
    /\ Len(calls[c].ret.docs_list.val) = 2
    /\ IsInt(calls[c].ret.total, 57)

\* the string s ends with the string t
EndsWith(s, t) == Len(s) >= Len(t) /\ SubSeq(s, Len(s) - Len(t) + 1, Len(s)) = t

\* the text blocks of the records docs, one after the other in their order
BlocksInOrder(docs) ==
  JoinStrings("", [i \in DOMAIN docs |-> format_document_markdown(docs[i]).val])

\* the hint that names next_offset
HintFor(next_offset) ==
  "\n**More results available.** Use offset=" \o ToString(next_offset)
  \o " to see the next page.\n"

\* the line of the shown range
ShowingLine(call) ==
  "**Showing:** " \o ToString(call.params.offset.val + 1) \o "-" \o ToString(PageEnd(call))
  \o " of " \o CommaStr(call.ret.total.val) \o "\n"

\* the text ends with the blocks of the parsed records in the parser's order,
\* followed by the hint if offset + count < total and by nothing otherwise
EndsAsAssembled(text, call) ==
  EndsWith(text, "\n---\n\n" \o BlocksInOrder(call.ret.docs_list.val)
                 \o (IF PageEnd(call) < call.ret.total.val THEN HintFor(PageEnd(call))
                     ELSE ""))

IsGuidance(call) ==
  IF call.tool = "search_documents" THEN call.ret.result = SearchNoResults
  ELSE /\ StartsWith(call.ret.result, "No documents found for project: ")
       /\ EndsWith(call.ret.result, "- Use broader search terms")

\* search_documents or search_by_project returned past the parser with an
\* integer total
PageParsed(call) ==
  /\ ParserApplied(call)
  /\ call.tool \in PagedTools
  /\ call.ret.branch \in {"no_results", "assembled"}
  /\ call.ret.total.kind = "int"

\* a Shape-A reply without a top-level total, read by the Shape-A parser
ShapeAWithoutTotal(call) ==
  /\ response_parser = "parse_stdio_response"
  /\ call.reply.body.kind = "dict"
  /\ ~HasKey(call.reply.body, "total")
  /\ Get(call.reply.body, "documents", JDict(<<>>)).kind = "dict"

\* C27: search_documents and search_by_project take the zero-result branch
\* exactly when the parsed total is 0, whatever the parsed list holds: the
\* guidance text is returned and no document block is in it, also for a
\* Shape-A reply without a top-level total; with a total above 0 the page is
\* assembled, also when the parsed list is empty.
C27_TotalAlone ==
  \A c \in CallIds :
    /\ PageParsed(calls[c]) =>
         /\ calls[c].ret.total.val = 0 =>
              /\ calls[c].ret.branch = "no_results"
              /\ IsGuidance(calls[c])
              /\ ~Contains(calls[c].ret.result, "### ")
              /\ ~Contains(calls[c].ret.result, "\"documents\"")
         /\ calls[c].ret.total.val > 0 => calls[c].ret.branch = "assembled"
    /\ (ParserApplied(calls[c]) /\ calls[c].tool \in PagedTools
        /\ ShapeAWithoutTotal(calls[c])) =>
         /\ calls[c].ret.branch = "no_results"
         /\ IsGuidance(calls[c])

\* search_by_project found one record in a Shape-A reply that states no
\* total, and returned the guidance text
C27_Witness ==
  \E c \in CallIds :
    /\ PageParsed(calls[c])
    /\ calls[c].tool = "search_by_project"
    /\ ShapeAWithoutTotal(calls[c])
    /\ Len(calls[c].ret.docs_list.val) = 1
    /\ IsInt(calls[c].ret.total, 0)
    /\ IsGuidance(calls[c])

\* explore_facets returned on a JSON object
FacetsAnswered(call) ==
  /\ call.pc = "returned"
  /\ call.tool = "explore_facets"
  /\ Len(call.requests) > 0

\* the reply has facet data under the facets key of its documents collection
\* and none under its top-level facets key
FacetsOnlyInCollection(reply) ==
  /\ reply.kind = "response" /\ reply.status = 200 /\ reply.is_json
  /\ reply.body.kind = "dict"
  /\ ~Truthy(Get(reply.body, "facets", JDict(<<>>)))
  /\ Get(reply.body, "documents", None).kind = "dict"
  /\ Truthy(Get(Item(reply.body, "documents"), "facets", None))

\* C28: what explore_facets returned is what its handler returns for the same
\* input and reply on a server built with any of the parsers; a reply whose
\* facet data is only under the facets key of the documents collection gives
\* the "no facet data" message.
C28_ParserIndependent ==
  \A c \in CallIds :
    FacetsAnswered(calls[c]) =>
      /\ \A parser \in Parsers :
           LET Same(ret, other) == ret.branch = other.branch /\ ret.result = other.result
           IN Same(calls[c].ret, Resume(calls[c], parser, calls[c].reply))
      /\ FacetsOnlyInCollection(calls[c].reply) =>
           /\ calls[c].ret.branch = "no_facet_data"
           /\ calls[c].ret.result = NoFacetData

\* on a server built with the Shape-A parser, explore_facets returned the
\* "no facet data" message for a reply with country counts under
\* documents.facets
C28_Witness ==
  \E c \in CallIds :
    /\ FacetsAnswered(calls[c])
    /\ response_parser = "parse_stdio_response"
    /\ FacetsOnlyInCollection(calls[c].reply)
    /\ HasKey(Item(Item(calls[c].reply.body, "documents"), "facets"), "count_exact")
    /\ calls[c].ret.result = NoFacetData

IsOddFacet(v) ==
  /\ v.kind = "list"
  /\ Len(v.val) % 2 = 1
  /\ \A i \in DOMAIN v.val : v.val[i].kind = IF i % 2 = 1 THEN "str" ELSE "int"

\* the requested facet names of call that the reply answers with a sequence
\* of odd length
OddFacets(call) ==
  {i \in DOMAIN call.params.facets.val :
     /\ HasKey(FacetData(call), call.params.facets.val[i].val)
     /\ IsOddFacet(Item(FacetData(call), call.params.facets.val[i].val))}

\* explore_facets returned on a reply whose non-empty facet mapping answers
\* every requested facet with an alternating sequence, of even or odd length,
\* or not at all
FacetsAlternating(call) ==
  /\ call.pc = "returned"
  /\ call.tool = "explore_facets"
  /\ call.reply.body.kind = "dict"
  /\ FacetData(call).kind = "dict"
  /\ Len(FacetData(call).val) > 0
  /\ \A i \in DOMAIN call.params.facets.val :
       \/ i \in AbsentFacets(call)
       \/ i \in FlatFacets(call)
       \/ i \in OddFacets(call)

\* every entry of a structured facet list is an object of the two keys value
\* and count, the count an integer
EntriesCounted(entries) ==
  /\ entries.kind = "list"
  /\ \A k \in DOMAIN entries.val :
       /\ entries.val[k].kind = "dict"
       /\ KeysOf(entries.val[k]) = <<"value", "count">>
       /\ Item(entries.val[k], "value").kind = "str"
       /\ Item(entries.val[k], "count").kind = "int"

\* C30: for a requested facet whose flat sequence has odd length n,
\* explore_facets assembles its output and drops the trailing unpaired
\* element: the pairs are the floor(n/2) consecutive pairs, sorted by count;
\* the text section reports "Total unique values: floor(n/2)" and lists those
\* pairs only; every entry of the structured list has a value and an integer
\* count.
C30_TrailingDropped ==
  \A c \in CallIds :
    FacetsAlternating(calls[c]) =>
      /\ calls[c].ret.branch = "assembled"
      /\ \A i \in OddFacets(calls[c]) :
           LET name == calls[c].params.facets.val[i].val
               flat == Item(FacetData(calls[c]), name).val
               n == Len(flat)
               object == FacetsResultObject(calls[c].params, FacetData(calls[c]))
               entries == Item(Item(object.val, "facets"), name)
               Dropped(listed) ==
                 /\ Len(listed) = (n - 1) \div 2
                 /\ IsSortedPairing(flat, listed)
                 /\ IF calls[c].params.response_format = "markdown"
                    THEN /\ Contains(calls[c].ret.result, CappedSection(name, listed))
                         /\ ~Contains(calls[c].ret.result,
                                      "- **" \o flat[n].val \o "**: ")
                         /\ ~Contains(calls[c].ret.result, "None documents")
                    ELSE calls[c].ret.result = json_dumps(object.val)
           IN /\ object.ok
              /\ EntriesCounted(entries)
              /\ Dropped(EntryPairs(entries))

\* ["Kenya", 3, "Ghana", 7, "Peru"] was listed in text mode as the two pairs
\* Ghana and Kenya, and ["French"] as no pair
C30_Witness ==
  \E c \in CallIds :
    /\ FacetsAlternating(calls[c])
    /\ calls[c].params.response_format = "markdown"
    /\ Cardinality(OddFacets(calls[c])) = 2
    /\ Contains(calls[c].ret.result,
                "## count_exact\n\nTotal unique values: 2\n\n"
                \o "- **Ghana**: 7 documents\n- **Kenya**: 3 documents\n\n")
    /\ Contains(calls[c].ret.result, "## lang_exact\n\nTotal unique values: 0\n\n\n")
    /\ ~Contains(calls[c].ret.result, "Peru")

====
